---- MODULE Spec2Model ----
(***************************************************************************)
(* Twinsafe-DLS chart generation: the production entry point               *)
(* (chart_generation/main.py), the data loader (data_loading.py) and the   *)
(* report generators (program_handlers.py), as state machines.             *)
(*                                                                         *)
(*   Spec     generate_report, from its three arguments to its return or   *)
(*            raise.                                                       *)
(*   SpecGen  ProductionReportGenerator.generate on a generator built with *)
(*            info_obj, one worker per visible channel.                    *)
(*   SpecFin  pdf.save() of insert_plot_and_logo followed by               *)
(*            finalize_output_path and copy_pdf, next to a reader of the   *)
(*            output directory.                                            *)
(***************************************************************************)
EXTENDS Integers, Sequences, FiniteSets, TLC

VARIABLES
    doc,             \* the metadata document given to generate_report
    csv,             \* the sample file given to generate_report
    pc,              \* position of generate_report / generate
    error,           \* the exception that reached the caller ("" when none)
    channel_info,    \* generate_report's local: the loaded channel table
    cleaned_data,    \* the TimeSeries: [cols, rows]
    active_channels, \* second result of prepare_primary_data
    info_obj,        \* the generator's self.info_obj: [isNone, rows]
    test_metadata,   \* the generator's self.test_metadata
    result,          \* what generate() returned
    outDirExists,    \* pdf_output_path exists as a directory
    outDir,          \* pdf_output_path: file name -> content, for existing files
    mirrorDir,       \* pdf_copy_dir: file name -> content, for existing files
    wpc,             \* per worker / caller: position
    wpath,           \* per worker / caller: its unique_path (<<>> before it is built)
    wret,            \* per worker / caller: the path returned (<<>> when none)
    werr,            \* per worker / caller: the exception raised ("" when none)
    wcopy,           \* per caller: what became of the mirror copy
    wtemp,           \* per caller: its temporary file existed when finalize_output_path was entered
    seen,            \* what the reader of the output directory has observed
    mirror_seen,     \* what the reader of the mirror directory has observed
    hold_info,       \* the channel record's event timestamps, as the operator entered them
    holds,           \* what locate_key_time_rows gave: [error, index, display]
    counts_series,   \* the average counts of the calibration segments
    expected_series, \* the expected counts of the calibration segments
    regression_coefficients, \* what calculate_calibration_regression gave
    calibration_info,    \* the calibration run's info_obj: [channel_index, key_points, max_range]
    samples,             \* the counts in the calibrated column, per row of the sample file
    calibration_indices, \* per key point: [start, stop], each a set (empty: NaN)
    average_values,      \* the calibration table, one column per key point
    abs_errors,          \* the unrounded absolute errors, per key point
    has_breach,          \* generate()'s has_breach
    historical,          \* the historical sample log: its lines
    original_log,        \* the historical sample log before the first trim_csv
    max_rows,            \* trim_csv's max_rows
    trim_error,          \* the exception the last trim_csv raised ("" when none)
    pdf_dir,             \* PDF_DIR: [exists, files], files: name -> [kind, mtime]
    present,             \* the names in PDF_DIR that exist now
    deleted,             \* the names the last trim_pdfs unlinked
    unlink_failed,       \* the names whose unlink raised in the last trim_pdfs
    passes,              \* how many times the retention operation has run
    trim_log,            \* the retention operations that have run, in order
    wmeta,               \* per channel: generate_single_report's metadata, a set (empty: not made yet)
    client,              \* OpcUaWrapper.client: the identity of the Client object (0: None)
    made,                \* the last number given to a Client object (0: no wrapper yet)
    calls,               \* per thread: its call of read, read_direct or write
    reconnects,          \* the reconnects performed by _execute_with_retry
    templates,           \* the templates directory: the mtime of each workbook (0: absent)
    log_cache_data,      \* _log_cache_data
    log_cache_mtimes,    \* _log_cache_mtimes
    log_cache_lock,      \* _log_cache_lock: the request that holds it (0: free)
    requests,            \* per request: where the handler is, and its locals
    observed             \* what the handlers have read from _log_cache_data

vars == <<doc, csv, pc, error, channel_info, cleaned_data, active_channels,
          info_obj, test_metadata, result, outDirExists, outDir, mirrorDir,
          wpc, wpath, wret, werr, wcopy, wtemp, seen, mirror_seen, hold_info, holds,
          counts_series, expected_series, regression_coefficients,
          calibration_info, samples, calibration_indices, average_values,
          abs_errors, has_breach, historical, original_log, max_rows,
          trim_error, pdf_dir, present, deleted, unlink_failed, passes,
          trim_log, wmeta, client, made, calls, reconnects, templates,
          log_cache_data, log_cache_mtimes, log_cache_lock, requests, observed>>

(***************************************************************************)
(* Bounds of the model.                                                    *)
(***************************************************************************)
\* channels in a metadata document
NumCh == 2
\* rows in a sample file
MaxRows == 2
\* distinct parseable Datetime values
MaxT == 3
\* futures the ProcessPoolExecutor has handed to its processes at one time
PoolSize == 2
\* concurrent callers of insert_plot_and_logo / finalize_output_path
NumCallers == 2

(***************************************************************************)
(* Values.                                                                 *)
(***************************************************************************)
\* channel identities an operator may enter; "" is an empty identity
UniqueNumbers == {"", "A", "B"}

\* a Datetime cell that does not match "%Y-%m-%dT%H:%M:%S.%f"
BadText == 0

\* pandas' null timestamp
NaT == -1

\* str(idx) for the positional column names
Digits == <<"1", "2", "3", "4">>

\* pandas' name for a column whose header cell is blank
UnnamedNames == <<"Unnamed: 1", "Unnamed: 2", "Unnamed: 3", "Unnamed: 4">>

AmbientTemperature == "Ambient Temperature"

\* the sample file's value column behind "Ambient Temperature"
AmbientCol == 0

ChannelRecords == [unique_number : UniqueNumbers, visible : BOOLEAN]

SeqsUpTo(S, n) == UNION {[1..k -> S] : k \in 0..n}

RECURSIVE SeqFilter(_, _)
\* the elements of s that are in the set keep, in order
SeqFilter(s, keep) ==
    IF s = <<>> THEN <<>>
    ELSE IF Head(s) \in keep THEN <<Head(s)>> \o SeqFilter(Tail(s), keep)
    ELSE SeqFilter(Tail(s), keep)

RECURSIVE Flatten(_)
Flatten(ss) == IF ss = <<>> THEN <<>> ELSE Head(ss) \o Flatten(Tail(ss))

Range(s) == {s[i] : i \in DOMAIN s}

(***************************************************************************)
(* data_loading.load_test_information                                      *)
(***************************************************************************)
\* the exception load_test_information raises on d, "" when it returns
LoadError(d) ==
    CASE d.status = "missing" -> "FileNotFoundError"
      [] d.status = "invalid" -> "JSONDecodeError"
      [] d.channel_info = <<>> -> "KeyError"
      [] OTHER -> ""

\* channel_info[channel_info["visible"] == True].reset_index(drop=True)
VisibleOnly(rows) == SeqFilter(rows, {r \in Range(rows) : r.visible = TRUE})

\* the channel table load_test_information returns
LoadChannelInfo(d) == VisibleOnly(d.channel_info)

(***************************************************************************)
(* data_loading.prepare_primary_data, production mode                      *)
(***************************************************************************)
\* read_csv guarded by the FileNotFoundError handler alone
ReadErrorMissingOnly(f) ==
    IF f.status = "missing" THEN "FileNotFoundError" ELSE ""

\* the exception pd.read_csv's handlers raise, "" when the file is read
ReadError(f) ==
    CASE f.status = "missing" -> "FileNotFoundError"
      [] f.status = "empty" -> "ValueError"
      [] f.status = "unreadable" -> "Exception"
      [] OTHER -> ""

\* raw_data.columns without Datetime: the header cells, then the ambient column
RawColumns(f) ==
    [k \in 1..Len(f.header) |-> [name |-> f.header[k], col |-> k]]
        \o <<[name |-> AmbientTemperature, col |-> AmbientCol]>>

ColumnNames(cols) == {cols[k].name : k \in DOMAIN cols}

\* unique_numbers = channel_info["unique_number"].tolist()
UniqueNumberList(info) == [i \in DOMAIN info |-> info[i].unique_number]

\* active_channels = [uid for uid in unique_numbers if uid]
ActiveChannels(info) ==
    SeqFilter(UniqueNumberList(info), Range(UniqueNumberList(info)) \ {""})

\* the positions idx whose column enters column_map, with the column's old name
MappedName(names, idx) ==
    IF Digits[idx] \in names THEN Digits[idx]
    ELSE IF UnnamedNames[idx] \in names THEN UnnamedNames[idx]
    ELSE ""

\* column_map: old column name -> uid; a later idx overwrites an earlier one
ColumnMap(f, info) ==
    LET names == ColumnNames(RawColumns(f))
        idxs  == {i \in DOMAIN info :
                     info[i].unique_number # "" /\ MappedName(names, i) # ""}
    IN  [old \in {MappedName(names, i) : i \in idxs} |->
            LET last == CHOOSE i \in idxs :
                           /\ MappedName(names, i) = old
                           /\ \A j \in idxs : MappedName(names, j) = old => j <= i
            IN  info[last].unique_number]

\* raw_data.rename(columns=column_map)
Rename(cols, cmap) ==
    [k \in DOMAIN cols |->
        IF cols[k].name \in DOMAIN cmap
        THEN [cols[k] EXCEPT !.name = cmap[cols[k].name]]
        ELSE cols[k]]

\* pd.to_datetime(cell, format=..., errors="coerce")
ToDatetime(cell) == IF cell = BadText THEN NaT ELSE cell

\* the rows of raw_data with Datetime parsed; src is the row's place in the file
ParsedRows(f) ==
    [r \in 1..Len(f.rows) |-> [Datetime |-> ToDatetime(f.rows[r]), src |-> r]]

\* drop_duplicates(subset=["Datetime"], keep="last")
DropDuplicatesKeepLast(rows) ==
    SeqFilter(rows, {rows[r] : r \in {r \in DOMAIN rows :
                        \A q \in (r + 1)..Len(rows) : rows[q].Datetime # rows[r].Datetime}})

\* drop_duplicates(subset=["Datetime"], keep="first"): null timestamps are equal
DropDuplicates(rows) ==
    SeqFilter(rows, {rows[r] : r \in {r \in DOMAIN rows :
                        \A q \in 1..(r - 1) : rows[q].Datetime # rows[r].Datetime}})

\* sort_values orders null timestamps after every other one
Before(a, b) == a # NaT /\ (b = NaT \/ a < b)

RECURSIVE Insert(_, _)
Insert(sorted, row) ==
    IF sorted = <<>> THEN <<row>>
    ELSE IF Before(row.Datetime, Head(sorted).Datetime)
         THEN <<row>> \o sorted
         ELSE <<Head(sorted)>> \o Insert(Tail(sorted), row)

RECURSIVE SortValues(_)
\* sort_values("Datetime").reset_index(drop=True)
SortValues(rows) ==
    IF rows = <<>> THEN <<>>
    ELSE Insert(SortValues(SubSeq(rows, 1, Len(rows) - 1)), rows[Len(rows)])

\* required_columns filtered to those in raw_data.columns, without Datetime
RequiredColumns(cols, active) ==
    SeqFilter(active \o <<AmbientTemperature>>, ColumnNames(cols))

\* raw_data[required_columns]: every column carrying a requested label, per request
SelectColumns(cols, required) ==
    Flatten([k \in DOMAIN required |->
                SeqFilter(cols, {c \in Range(cols) : c.name = required[k]})])

\* the TimeSeries prepare_primary_data returns for a readable file
PrepareData(f, info) ==
    LET renamed == Rename(RawColumns(f), ColumnMap(f, info))
    IN  [cols |-> SelectColumns(renamed, RequiredColumns(renamed, ActiveChannels(info))),
         rows |-> SortValues(DropDuplicates(ParsedRows(f)))]

EmptyData == [cols |-> <<>>, rows |-> <<>>]

(***************************************************************************)
(* File names and file contents.  A name is its sequence of parts, so that *)
(* the suffix test and the slice of finalize_output_path act on the name.  *)
(***************************************************************************)
\* x or 'Unknown'
OrUnknown(x) == IF x = "" THEN "Unknown" ELSE x

\* ProductionReportGenerator.build_output_path, without the directory
BuildOutputPath(metadata) ==
    << OrUnknown(metadata.OTS_Number), "_", OrUnknown(metadata.Line_Item), "_",
       OrUnknown(metadata.Unique_Number), "_", metadata.Date_Time, ".tmp", ".pdf" >>

\* name.endswith(".tmp.pdf")
EndsWithTmpPdf(name) ==
    /\ Len(name) >= 2
    /\ name[Len(name) - 1] = ".tmp"
    /\ name[Len(name)] = ".pdf"

\* name[:-8] + ".pdf"
FinalPath(name) == SubSeq(name, 1, Len(name) - 2) \o <<".pdf">>

\* a document a writer has opened and not yet closed / has closed
Partial(w) == [by |-> w, complete |-> FALSE]
Complete(w) == [by |-> w, complete |-> TRUE]

\* the writer id of a document left by an earlier run
EarlierRun == 0

NoFiles == [n \in {} |-> Complete(EarlierRun)]

Exists(dir, name) == name \in DOMAIN dir

\* open(name, "wb") / a rename onto name: the name now holds content
Put(dir, name, content) ==
    [n \in DOMAIN dir \cup {name} |-> IF n = name THEN content ELSE dir[n]]

\* Path.unlink
Unlink(dir, name) == [n \in DOMAIN dir \ {name} |-> dir[n]]

\* a copy in place of the rename: the source stays
ReplaceByCopy(dir, from, to) == Put(dir, to, dir[from])

\* Path.replace: one atomic rename
Replace(dir, from, to) == Put(Unlink(dir, from), to, dir[from])

(***************************************************************************)
(* Inputs.                                                                 *)
(***************************************************************************)
TestMetadata ==
    [OTS_Number |-> "7001", Line_Item |-> "", Unique_Number |-> "",
     Date_Time |-> "21-01-2026_14-55-37", Test_Pressure |-> 3000]

\* no channel has made its metadata
NoCopies == [w \in 1..NumCh |-> {}]

Docs ==
    [status : {"ok"}, channel_info : SeqsUpTo(ChannelRecords, NumCh)]
        \cup [status : {"missing", "invalid"}, channel_info : {<<>>}]

\* headers of the value columns: all numbered, or the last one blank
Headers ==
    { [k \in 1..NumCh |-> Digits[k]],
      [k \in 1..NumCh |-> IF k = NumCh THEN UnnamedNames[k] ELSE Digits[k]] }

Csvs ==
    [status : {"ok"}, header : Headers, rows : SeqsUpTo(0..MaxT, MaxRows)]
        \cup [status : {"missing", "empty", "unreadable"},
              header : {<<>>}, rows : {<<>>}]

None == [isNone |-> TRUE, rows |-> <<>>]

Idle(n) == [w \in 1..n |-> "idle"]
NoPaths(n) == [w \in 1..n |-> <<>>]
NoText(n) == [w \in 1..n |-> ""]
NoFlags(n) == [w \in 1..n |-> FALSE]

(***************************************************************************)
(* additional_info_functions.locate_key_time_rows.  A cell of a result     *)
(* table is a set: empty when the cell is blank (None or ''), else the one *)
(* value it holds.                                                         *)
(***************************************************************************)
\* the keys of the three named events, in the order of the labels
Events == <<"start_of_stabilisation", "start_of_hold", "end_of_hold">>

\* what a channel record may hold under an event's key: nothing (no key, None
\* or NaN), an empty string, a string of blanks, a text that is no timestamp,
\* or a timestamp
EventValues ==
    [kind : {"absent", "empty", "blank", "text"}, t : {NaT}]
        \cup [kind : {"time"}, t : 0..(MaxT + 1)]

HoldInfos == [DOMAIN Events -> EventValues]

\* parse_time: None for a missing or blank value, else pd.to_datetime(coerce)
ParseTime(value) ==
    IF value.kind \in {"absent", "empty", "blank"}
    THEN [isNone |-> TRUE, t |-> NaT]
    ELSE IF value.kind = "text" THEN [isNone |-> FALSE, t |-> NaT]
    ELSE [isNone |-> FALSE, t |-> value.t]

\* ts is None, without the pd.isna(ts) test
IsBlankTimeNoneOnly(ts) == ts.isNone

\* ts is None or pd.isna(ts)
IsBlankTime(ts) == ts.isNone \/ ts.t = NaT

\* get_indexer's -1, in an indexing that counts rows from 1
NoPosition == 0

Abs(x) == IF x < 0 THEN 0 - x ELSE x

\* cleaned_data.set_index('Datetime').index
DatetimeIndex(data) == [k \in DOMAIN data.rows |-> data.rows[k].Datetime]

\* Index.is_monotonic_increasing: a null timestamp makes it false
IsMonotonicIncreasing(index) ==
    /\ \A i \in DOMAIN index : index[i] # NaT
    /\ \A i, j \in DOMAIN index : i < j => index[i] <= index[j]

\* Index.is_monotonic_decreasing
IsMonotonicDecreasing(index) ==
    /\ \A i \in DOMAIN index : index[i] # NaT
    /\ \A i, j \in DOMAIN index : i < j => index[i] >= index[j]

\* get_indexer(method="pad"): the last row not after ts
Pad(index, ts) ==
    LET at == {i \in DOMAIN index : index[i] <= ts}
    IN  IF at = {} THEN NoPosition ELSE CHOOSE i \in at : \A j \in at : j <= i

\* get_indexer(method="backfill"): the first row not before ts
Backfill(index, ts) ==
    LET at == {i \in DOMAIN index : index[i] >= ts}
    IN  IF at = {} THEN NoPosition ELSE CHOOSE i \in at : \A j \in at : i <= j

\* _difference_compat: position -1 reads the last element
Distance(index, ts, pos) ==
    Abs(ts - index[IF pos = NoPosition THEN Len(index) ELSE pos])

\* the choice of _get_nearest_indexer with the comparison le instead of lt
NearestPreferPad(index, ts) ==
    LET left  == Pad(index, ts)
        right == Backfill(index, ts)
    IN  IF Distance(index, ts, left) <= Distance(index, ts, right)
           \/ right = NoPosition
        THEN left ELSE right

\* _get_nearest_indexer on a monotonic increasing index: np.where(
\* lt(left_distances, right_distances) | (right_indexer == -1), left, right)
Nearest(index, ts) ==
    LET left  == Pad(index, ts)
        right == Backfill(index, ts)
    IN  IF Distance(index, ts, left) < Distance(index, ts, right)
           \/ right = NoPosition
        THEN left ELSE right

\* index.get_indexer([ts], method="nearest")[0]: [error, pos]
GetIndexerNearest(index, ts) ==
    IF index = <<>> THEN [error |-> "", pos |-> NoPosition]
    ELSE IF ~IsMonotonicIncreasing(index) /\ ~IsMonotonicDecreasing(index)
    THEN [error |-> "ValueError", pos |-> NoPosition]
    ELSE [error |-> "", pos |-> Nearest(index, ts)]

\* the sample-file columns of data that carry the label name
ColumnsNamed(data, name) ==
    {data.cols[k].col : k \in {j \in DOMAIN data.cols : data.cols[j].name = name}}

\* cleaned_data.loc[idx, name] read as one number: the exception, "" when none
LocError(data, pos, name) ==
    IF pos \notin DOMAIN data.rows \/ ColumnsNamed(data, name) = {} THEN "KeyError"
    ELSE IF Cardinality(ColumnsNamed(data, name)) > 1 THEN "TypeError"
    ELSE ""

\* cleaned_data.loc[idx, name]: the cell of the sample file behind it
Loc(data, pos, name) ==
    {[row |-> data.rows[pos].src, col |-> c] : c \in ColumnsNamed(data, name)}

Blank == {}

BlankRow == [Datetime |-> Blank, value |-> Blank, temperature |-> Blank]

\* index_data and display_table_data before the loop
NoHolds ==
    [error |-> "",
     index |-> [i \in DOMAIN Events |-> Blank],
     display |-> [i \in DOMAIN Events |-> BlankRow]]

\* one turn of the loop of locate_key_time_rows, for event i
LocateEvent(acc, data, hold, channel, i) ==
    LET ts  == ParseTime(hold[i])
        got == GetIndexerNearest(DatetimeIndex(data), ts.t)
    IN  IF acc.error # "" \/ IsBlankTime(ts) THEN acc
        ELSE IF got.error # "" THEN [acc EXCEPT !.error = got.error]
        ELSE IF LocError(data, got.pos, channel) # ""
        THEN [acc EXCEPT !.error = LocError(data, got.pos, channel)]
        ELSE IF LocError(data, got.pos, AmbientTemperature) # ""
        THEN [acc EXCEPT !.error = LocError(data, got.pos, AmbientTemperature)]
        ELSE [acc EXCEPT
                !.index[i] = {got.pos},
                !.display[i] =
                    [Datetime |-> {[strftime |-> ts.t]},
                     value |-> Loc(data, got.pos, channel),
                     temperature |-> Loc(data, got.pos, AmbientTemperature)]]

\* locate_key_time_rows(cleaned_data, hold_info, channel_unique_number)
LocateKeyTimeRows(data, hold, channel) ==
    LocateEvent(LocateEvent(LocateEvent(NoHolds, data, hold, channel, 1),
                            data, hold, channel, 2),
                data, hold, channel, 3)

(***************************************************************************)
(* Floating-point values.  A number is the exact fraction n / d in lowest  *)
(* terms with d > 0; "nan" is not-a-number; "text" is a cell that is no    *)
(* number.                                                                 *)
(***************************************************************************)
RECURSIVE GCD(_, _)
GCD(a, b) == IF b = 0 THEN a ELSE GCD(b, a % b)

Norm(n, d) ==
    LET g == GCD(Abs(n), d)
    IN  [kind |-> "num", n |-> n \div g, d |-> d \div g]

Whole(n) == [kind |-> "num", n |-> n, d |-> 1]

NaN == [kind |-> "nan", n |-> 0, d |-> 1]

NotANumber == [kind |-> "text", n |-> 0, d |-> 1]

\* pd.isna
IsNa(x) == x.kind = "nan"

\* pd.to_numeric(errors="coerce") on one cell
ToNumeric(x) == IF x.kind = "text" THEN NaN ELSE x

(***************************************************************************)
(* additional_info_functions.calculate_calibration_regression.  A cell of  *)
(* the result is a set: empty for not-a-number, else the coefficient.      *)
(***************************************************************************)
\* the labels of the coefficient vector
RegressionLabels == <<"S3", "S2", "S1", "S0">>

\* counts is None / expected_counts is None
NoneSeries == [isNone |-> TRUE, values |-> <<>>]

SomeSeries(values) == [isNone |-> FALSE, values |-> values]

\* pd.Series([np.nan] * 4, index=labels)
AllNaN == [k \in DOMAIN RegressionLabels |-> {}]

\* mask without the expected_series.isna() term
ValidMaskCountsOnly(counts, expected) ==
    {i \in DOMAIN counts : ~IsNa(ToNumeric(counts[i]))}

\* mask = ~(counts_series.isna() | expected_series.isna())
ValidMask(counts, expected) ==
    {i \in DOMAIN counts :
        ~(IsNa(ToNumeric(counts[i])) \/ IsNa(ToNumeric(expected[i])))}

Min(a, b) == IF a <= b THEN a ELSE b

\* degree = min(3, len(valid_counts) - 1)
FitDegree(valid) == Min(3, valid - 1)

\* np.polyfit(x, y, deg): deg + 1 coefficients, highest power first
Polyfit(deg) == [k \in 1..(deg + 1) |-> [power |-> deg + 1 - k]]

\* padded[:degree + 1] = coefficients
PaddedRight(coefficients, degree) ==
    [k \in DOMAIN RegressionLabels |->
        IF k <= degree + 1 THEN {coefficients[k]} ELSE {}]

\* padded = np.full(4, np.nan); padded[-(degree + 1):] = coefficients
Padded(coefficients, degree) ==
    [k \in DOMAIN RegressionLabels |->
        IF k > Len(RegressionLabels) - (degree + 1)
        THEN {coefficients[k - (Len(RegressionLabels) - (degree + 1))]}
        ELSE {}]

\* calculate_calibration_regression(counts, expected_counts)
CalculateCalibrationRegression(counts, expected) ==
    IF counts.isNone \/ expected.isNone THEN AllNaN
    ELSE LET valid == Cardinality(ValidMask(counts.values, expected.values))
         IN  IF valid < 2 THEN AllNaN
             ELSE Padded(Polyfit(FitDegree(valid)), FitDegree(valid))

\* regression_coefficients = None
NoCoefficients == [isNone |-> TRUE, cells |-> AllNaN]

(***************************************************************************)
(* Arithmetic on floating-point values; not-a-number propagates.           *)
(***************************************************************************)
Mul(x, y) ==
    IF IsNa(x) \/ IsNa(y) THEN NaN
    ELSE LET g == GCD(Abs(x.n), y.d)
             h == GCD(Abs(y.n), x.d)
         IN  Norm((x.n \div g) * (y.n \div h), (x.d \div h) * (y.d \div g))

Add(x, y) ==
    IF IsNa(x) \/ IsNa(y) THEN NaN
    ELSE LET g == GCD(x.d, y.d)
         IN  Norm(x.n * (y.d \div g) + y.n * (x.d \div g), (x.d \div g) * y.d)

Neg(x) == IF IsNa(x) THEN NaN ELSE [x EXCEPT !.n = 0 - x.n]

Sub(x, y) == Add(x, Neg(y))

\* abs(x)
AbsOf(x) == IF IsNa(x) THEN NaN ELSE [x EXCEPT !.n = Abs(x.n)]

\* x > y; false when either is not-a-number
Greater(x, y) == ~IsNa(x) /\ ~IsNa(y) /\ x.n * y.d > y.n * x.d

\* round half to even of the fraction n / d, n >= 0
RoundHalfEven(n, d) ==
    LET q == n \div d
        r == n % d
    IN  IF 2 * r < d THEN q
        ELSE IF 2 * r > d THEN q + 1
        ELSE IF q % 2 = 0 THEN q ELSE q + 1

\* round(x): the nearest whole number
RoundToInt(x) ==
    IF x.n >= 0 THEN RoundHalfEven(x.n, x.d) ELSE 0 - RoundHalfEven(0 - x.n, x.d)

\* round(x, 2) and round(x, 3), through the power of ten
RoundTo(x, tenPower) ==
    IF IsNa(x) THEN NaN
    ELSE Norm(RoundToInt(Mul(x, Whole(tenPower))), tenPower)

RECURSIVE Sum(_)
Sum(values) == IF values = <<>> THEN 0 ELSE Head(values) + Sum(Tail(values))

\* Series.mean(): not-a-number for an empty selection
Mean(values) == IF values = <<>> THEN NaN ELSE Norm(Sum(values), Len(values))

(***************************************************************************)
(* data_loading.prepare_primary_data, calibration mode                     *)
(***************************************************************************)
CalibratedChannel == "Calibrated Channel"

\* str(channel_index), with channel 9 read as 'Ambient Temperature'
CalibrationColumnNames(channel_index) ==
    IF channel_index = 9 THEN <<AmbientTemperature, "Unnamed: Ambient Temperature">>
    ELSE IF channel_index \in DOMAIN Digits
    THEN <<Digits[channel_index], UnnamedNames[channel_index]>>
    ELSE <<"10", "Unnamed: 10">>

\* column_map of the calibration branch
CalibrationColumnMap(f, channel_index) ==
    LET names == ColumnNames(RawColumns(f))
        cand  == CalibrationColumnNames(channel_index)
        old   == IF cand[1] \in names THEN {cand[1]}
                 ELSE IF cand[2] \in names THEN {cand[2]} ELSE {}
    IN  [o \in old |-> CalibratedChannel]

\* the TimeSeries prepare_primary_data returns in calibration mode
PrepareCalibrationData(f, channel_index) ==
    LET renamed == Rename(RawColumns(f), CalibrationColumnMap(f, channel_index))
    IN  [cols |-> SelectColumns(renamed,
                     SeqFilter(<<CalibratedChannel>>, ColumnNames(renamed))),
         rows |-> SortValues(DropDuplicates(ParsedRows(f)))]

(***************************************************************************)
(* additional_info_functions.locate_calibration_points                     *)
(***************************************************************************)
\* pd.Timedelta(seconds=10), in the model's unit of time
TenSeconds == 1

\* what a key point may be: a text that is no timestamp, or a timestamp
KeyPointValues ==
    [kind : {"text"}, t : {NaT}] \cup [kind : {"time"}, t : 0..(MaxT + 1)]

\* a column of calibration_indices before it is filled
NoBounds == [start |-> {}, stop |-> {}]

\* the exception locate_calibration_points raises, "" when it returns
LocateCalibrationError(data, info) ==
    IF \E i \in DOMAIN info.key_points :
          /\ info.key_points[i].kind = "time"
          /\ GetIndexerNearest(DatetimeIndex(data), info.key_points[i].t).error # ""
    THEN "ValueError" ELSE ""

LocateCalibrationPointsStartOnly(data, info) ==
    [i \in DOMAIN info.key_points |->
        IF info.key_points[i].kind # "time" THEN NoBounds
        ELSE [start |-> {GetIndexerNearest(DatetimeIndex(data),
                                           info.key_points[i].t).pos},
              stop |-> {GetIndexerNearest(DatetimeIndex(data),
                                          info.key_points[i].t).pos}]]

\* locate_calibration_points(cleaned_data, calibration_info)
LocateCalibrationPoints(data, info) ==
    [i \in DOMAIN info.key_points |->
        IF info.key_points[i].kind # "time" THEN NoBounds
        ELSE [start |-> {GetIndexerNearest(DatetimeIndex(data),
                                           info.key_points[i].t).pos},
              stop |-> {GetIndexerNearest(DatetimeIndex(data),
                                          info.key_points[i].t + TenSeconds).pos}]]

(***************************************************************************)
(* additional_info_functions.calculate_succesful_calibration               *)
(***************************************************************************)
\* the row labels that carry a threshold (the micro sign written u, the
\* plus-minus sign written +/-)
MicroampLabel == "Abs Error (uA) - +/-3.6 uA"
MillivoltLabel == "Abs Error (mV) - +/-0.12 mV"
MillivoltWideLabel == "Abs Error (mV) - +/-1.0 mV"

\* pdf_helpers.CALIBRATION_THRESHOLDS
CALIBRATION_THRESHOLDS ==
    [label \in {MicroampLabel, MillivoltLabel, MillivoltWideLabel} |->
        CASE label = MicroampLabel -> Norm(36, 10)
          [] label = MillivoltLabel -> Norm(12, 100)
          [] OTHER -> Whole(1)]

\* applied_values by channel type
AppliedValues(channel_index) ==
    IF channel_index <= 8
    THEN <<Whole(4000), Whole(8000), Whole(12000), Whole(16000), Whole(20000)>>
    ELSE IF channel_index = 9
    THEN <<Norm(0 - 589, 100), Norm(928, 100), Norm(2446, 100),
           Norm(3964, 100), Norm(5481, 100)>>
    ELSE <<Whole(0), Whole(0), Whole(0), Whole(0), Whole(0)>>

\* regression_expected_values by channel type
RegressionExpectedValues(channel_index) ==
    IF channel_index <= 8
    THEN <<Whole(0), Whole(1953125), Whole(3906250), Whole(5859375), Whole(7812500)>>
    ELSE IF channel_index = 9
    THEN <<Whole(0 - 2700), Whole(1405), Whole(5510), Whole(9615), Whole(13720)>>
    ELSE <<Whole(0), Whole(0), Whole(0), Whole(0), Whole(0)>>

\* the label of the absolute-error row, index_labels[3]
AbsErrorLabel(channel_index) ==
    IF channel_index <= 8 THEN MicroampLabel
    ELSE IF channel_index = 9 THEN MillivoltLabel
    ELSE "Abs Error"

\* the reference list cut or zero-padded to num_points
FitToPoints(values, num_points) ==
    [i \in 1..num_points |-> IF i <= Len(values) THEN values[i] ELSE Whole(0)]

\* the counts of cleaned_data.loc[start_idx:end_idx, "Calibrated Channel"]
SegmentCounts(data, cells, bounds) ==
    IF bounds.start = {} \/ bounds.stop = {} THEN <<>>
    ELSE LET a == CHOOSE x \in bounds.start : TRUE
             b == CHOOSE x \in bounds.stop : TRUE
         IN  [k \in 1..(IF a = NoPosition \/ b < a THEN 0 ELSE b - a + 1) |->
                cells[data.rows[a + k - 1].src]]

\* the exception calculate_succesful_calibration raises, "" when it returns
CalculateError(data, cells, indices, info) ==
    IF Len(indices) = 0 THEN "IndexError"
    ELSE IF info.max_range = 0 THEN "ZeroDivisionError"
    ELSE IF ColumnsNamed(data, CalibratedChannel) = {} THEN "KeyError"
    ELSE IF \E i \in DOMAIN indices : SegmentCounts(data, cells, indices[i]) = <<>>
    THEN "ValueError"
    ELSE ""

\* slope = (applied_values[-1] - applied_values[0]) / calibration_info['max_range']
Slope(applied, max_range) ==
    Mul(Sub(applied[Len(applied)], applied[1]), Norm(1, max_range))

\* one turn of the loop of calculate_succesful_calibration, for key point i
CalculateSegment(data, cells, indices, info, i) ==
    LET applied   == FitToPoints(AppliedValues(info.channel_index), Len(indices))
        counts    == Mean(SegmentCounts(data, cells, indices[i]))
        converted == Add(Mul(Slope(applied, info.max_range), counts), applied[1])
        err       == Sub(applied[i], converted)
    IN  [applied |-> applied[i],
         counts |-> counts,
         counts_avg |-> RoundToInt(counts),
         converted |-> RoundTo(converted, 1000),
         abs_error |-> RoundTo(AbsOf(err), 100),
         precise |-> AbsOf(err)]

\* the display table of calculate_succesful_calibration, a column per key point
CalculateSuccessfulCalibration(data, cells, indices, info) ==
    [i \in DOMAIN indices |-> CalculateSegment(data, cells, indices, info, i)]

(***************************************************************************)
(* pdf_helpers.evaluate_calibration_thresholds                             *)
(***************************************************************************)
\* mask[row_label] = values.abs() > threshold, over the cells of the table
EvaluateCalibrationThresholds(table, label) ==
    IF label \notin DOMAIN CALIBRATION_THRESHOLDS THEN [i \in DOMAIN table |-> FALSE]
    ELSE [i \in DOMAIN table |->
            Greater(AbsOf(table[i].abs_error), CALIBRATION_THRESHOLDS[label])]

\* not breach_mask.empty and breach_mask.to_numpy().any()
HasBreach(mask) == \E i \in DOMAIN mask : mask[i]

NoCalibrationInfo == [channel_index |-> 1, key_points |-> <<>>, max_range |-> 0]

\* no calibration run
NoCalibration ==
    /\ calibration_info = NoCalibrationInfo
    /\ samples = <<>>
    /\ calibration_indices = <<>>
    /\ average_values = <<>>
    /\ abs_errors = <<>>
    /\ has_breach = FALSE

(***************************************************************************)
(* utils/trim_csv.trim_csv                                                 *)
(***************************************************************************)
\* the values a row of the historical sample log may hold
LogValues == {1, 2}

\* the ways a file may spell one value: as to_csv writes it, or otherwise
\* (a trailing zero, a quoted field)
Spellings == {"written", "other"}

\* a line of the file without a row
BlankLine == [kind |-> "blank", value |-> 0, spelling |-> "written"]

\* the lines a file may hold
LogLines ==
    {BlankLine} \cup [kind : {"row"}, value : LogValues, spelling : Spellings]

\* pd.read_csv(path, header=None): the rows of the file; blank lines are
\* skipped and a row is read as its values, whatever its spelling
RECURSIVE ReadCsv(_)
ReadCsv(lines) ==
    IF lines = <<>> THEN <<>>
    ELSE IF Head(lines).kind = "blank" THEN ReadCsv(Tail(lines))
    ELSE <<Head(lines).value>> \o ReadCsv(Tail(lines))

\* the exception pd.read_csv raises on a file without a row, "" otherwise
ReadCsvError(lines) == IF ReadCsv(lines) = <<>> THEN "EmptyDataError" ELSE ""

\* df.to_csv(path, index=False, header=False)
ToCsv(df) ==
    [i \in DOMAIN df |-> [kind |-> "row", value |-> df[i], spelling |-> "written"]]

DataFrameHead(df, n) == SubSeq(df, 1, Min(n, Len(df)))

\* df.tail(n), n >= 0
DataFrameTail(df, n) == SubSeq(df, Len(df) - Min(n, Len(df)) + 1, Len(df))

TrimCsvOldestRow(lines, rows) ==
    IF Len(ReadCsv(lines)) > rows
    THEN ToCsv(Tail(ReadCsv(lines)))
    ELSE lines

\* the file trim_csv(path, max_rows) leaves, when read_csv raises nothing
TrimCsv(lines, rows) ==
    IF Len(ReadCsv(lines)) > rows
    THEN ToCsv(DataFrameTail(ReadCsv(lines), rows))
    ELSE lines

(***************************************************************************)
(* utils/trim_pdfs.trim_pdfs                                               *)
(***************************************************************************)
\* Max number of PDFs to keep
MAX_PDFS == 100

\* what PDF_DIR may hold: a finalized document (name.pdf), the temporary
\* file of a report in generation (name.tmp.pdf), a file that is no PDF
FileKinds == {"document", "temporary", "other"}

\* PDF_DIR.glob("*.pdf") with p.is_file(): the names that end in .pdf
Glob(dir, names) ==
    {p \in names : dir.files[p].kind \in {"document", "temporary"}}

\* p.stat().st_mtime
Mtime(dir, p) == dir.files[p].mtime

\* the files of pdfs with a smaller st_mtime than p, and with one no greater
Older(dir, pdfs, p) == {q \in pdfs : Mtime(dir, q) < Mtime(dir, p)}

NotNewer(dir, pdfs, p) == {q \in pdfs : Mtime(dir, q) <= Mtime(dir, p)}

ToDeleteNewest(dir, pdfs) ==
    {{p \in pdfs : Cardinality({q \in pdfs : Mtime(dir, q) > Mtime(dir, p)})
                       < Cardinality(pdfs) - MAX_PDFS}}

\* pdfs.sort(key=st_mtime); to_delete = pdfs[:-MAX_PDFS], for more than
\* MAX_PDFS files: every list the sort may end with, files of one st_mtime
\* standing in the order the directory listed them
ToDelete(dir, pdfs) ==
    LET excess == Cardinality(pdfs) - MAX_PDFS
        sure   == {p \in pdfs : Cardinality(NotNewer(dir, pdfs, p)) <= excess}
        edge   == {p \in pdfs \ sure : Cardinality(Older(dir, pdfs, p)) < excess}
    IN  {sure \cup some :
            some \in {e \in SUBSET edge :
                         Cardinality(e) = excess - Cardinality(sure)}}

\* no retention pass
NoTrim ==
    /\ historical = <<>>
    /\ original_log = <<>>
    /\ max_rows = 0
    /\ trim_error = ""
    /\ pdf_dir = [exists |-> FALSE, files |-> <<>>]
    /\ present = {}
    /\ deleted = {}
    /\ unlink_failed = {}
    /\ passes = 0
    /\ trim_log = <<>>

\* the state of the operations generate_report does not reach, at rest
(***************************************************************************)
(* The web backend: the shared OPC UA wrapper (visualisation/backend/opc.py)*)
(* and the log-sheet cache (visualisation/backend/pages/test_details.py),  *)
(* both used by request handlers that run on several threads.              *)
(***************************************************************************)

\* how many threads call the wrapper, and how many requests read the cache
NumThreads == 2
Threads == 1..NumThreads

\* a thread that has not called the wrapper
NoCall == [pc |-> "idle", attempt |-> 0, current_client |-> 0,
           outcomes |-> <<>>, raised |-> ""]

\* before opc.py line 274 has run
NoOpc ==
    /\ client = 0
    /\ made = 0
    /\ calls = [t \in Threads |-> NoCall]
    /\ reconnects = {}

\* the workbooks of the templates directory
Workbooks == {"a.xlsx", "b.xlsx"}

\* a request that has not entered its handler
NoRequest == [pc |-> "idle", new_mtimes |-> <<>>, grouped |-> <<>>, previous |-> <<>>]

\* test_details.py lines 244-246, with an empty templates directory
NoCache ==
    /\ templates = [f \in Workbooks |-> 0]
    /\ log_cache_data = <<>>
    /\ log_cache_mtimes = <<>>
    /\ log_cache_lock = 0
    /\ requests = [t \in Threads |-> NoRequest]
    /\ observed = {}

NoWeb == NoOpc /\ NoCache

OthersIdle ==
    /\ hold_info = [i \in DOMAIN Events |-> [kind |-> "absent", t |-> NaT]]
    /\ holds = NoHolds
    /\ counts_series = NoneSeries
    /\ expected_series = NoneSeries
    /\ regression_coefficients = NoCoefficients
    /\ NoCalibration
    /\ NoTrim
    /\ wmeta = NoCopies
    /\ NoWeb

(***************************************************************************)
(* main.generate_report                                                    *)
(***************************************************************************)
Init ==
    /\ doc \in Docs
    /\ csv \in Csvs
    /\ pc = "start"
    /\ error = ""
    /\ channel_info = <<>>
    /\ cleaned_data = EmptyData
    /\ active_channels = <<>>
    /\ info_obj = None
    /\ test_metadata = TestMetadata
    /\ result = <<>>
    /\ outDirExists = FALSE
    /\ outDir = NoFiles
    /\ mirrorDir = NoFiles
    /\ wpc = Idle(NumCh)
    /\ wpath = NoPaths(NumCh)
    /\ wret = NoPaths(NumCh)
    /\ werr = NoText(NumCh)
    /\ wcopy = NoText(NumCh)
    /\ wtemp = NoFlags(NumCh)
    /\ seen = {}
    /\ mirror_seen = {}
    /\ OthersIdle

workerVars == <<wpc, wpath, wret, werr, wcopy, wtemp>>
dirVars == <<outDirExists, outDir, mirrorDir, seen, mirror_seen>>
inputVars == <<doc, csv, test_metadata>>
alignVars == <<hold_info, holds>>
\* the state of the operations generate_report does not reach
regVars == <<counts_series, expected_series, regression_coefficients>>
calVars == <<calibration_info, samples, calibration_indices, average_values,
             abs_errors, has_breach>>
\* the state of the retention trimmer
trimVars == <<historical, original_log, max_rows, trim_error, pdf_dir, present,
              deleted, unlink_failed, passes, trim_log>>
opcVars == <<client, made, calls, reconnects>>
cacheVars == <<templates, log_cache_data, log_cache_mtimes, log_cache_lock,
               requests, observed>>
webVars == <<opcVars, cacheVars>>
idleVars == <<alignVars, regVars, calVars, trimVars, webVars>>
otherVars == <<idleVars, wmeta>>

\* main.py line 17
LoadTestInformation ==
    /\ pc = "start"
    /\ IF LoadError(doc) # ""
       THEN /\ pc' = "raised"
            /\ error' = LoadError(doc)
            /\ UNCHANGED channel_info
       ELSE /\ pc' = "loaded"
            /\ channel_info' = LoadChannelInfo(doc)
            /\ UNCHANGED error
    /\ UNCHANGED <<cleaned_data, active_channels, info_obj, result>>
    /\ UNCHANGED <<inputVars, otherVars, dirVars, workerVars>>

\* main.py lines 19-22
PreparePrimaryData ==
    /\ pc = "loaded"
    /\ IF ReadError(csv) # ""
       THEN /\ pc' = "raised"
            /\ error' = ReadError(csv)
            /\ UNCHANGED <<cleaned_data, active_channels>>
       ELSE /\ pc' = "prepared"
            /\ cleaned_data' = PrepareData(csv, channel_info)
            /\ active_channels' = ActiveChannels(channel_info)
            /\ UNCHANGED error
    /\ UNCHANGED <<channel_info, info_obj, result>>
    /\ UNCHANGED <<inputVars, otherVars, dirVars, workerVars>>

\* the keywords generate_report passes to ProductionReportGenerator
GenerateReportKwargs ==
    {"program_name", "pdf_output_path", "test_metadata", "active_channels",
     "cleaned_data", "channel_info"}

\* BaseReportGenerator.__init__: self.info_obj = kwargs.get("info_obj")
KwargsGetInfoObj(kwargs, value) ==
    IF "info_obj" \in kwargs THEN [isNone |-> FALSE, rows |-> value] ELSE None

\* main.py lines 24-31
Construct ==
    /\ pc = "prepared"
    /\ pc' = "constructed"
    /\ info_obj' = KwargsGetInfoObj(GenerateReportKwargs, channel_info)
    /\ UNCHANGED <<error, channel_info, cleaned_data, active_channels, result>>
    /\ UNCHANGED <<inputVars, otherVars, dirVars, workerVars>>

(***************************************************************************)
(* ProductionReportGenerator.generate and generate_single_report           *)
(***************************************************************************)
\* [row for _, row in channel_info.iterrows() if row.get("visible", False)]
VisibleChannels(info) == SeqFilter(info, {r \in Range(info) : r.visible})

NumVisible == Len(VisibleChannels(info_obj.rows))

Workers == 1..NumVisible

\* a future that was handed to a process and has not finished
Running(w) == wpc[w] \in {"running", "sliced", "pathed"}

Finished(w) == wpc[w] \in {"done", "failed", "cancelled"}

\* program_handlers.py lines 97-117, up to the dispatch of the channels
Generate ==
    /\ pc = "constructed"
    /\ IF info_obj.isNone
       THEN /\ pc' = "raised"
            /\ error' = "AttributeError"
            /\ UNCHANGED <<result, wpc>>
       ELSE IF NumVisible = 0
       THEN /\ pc' = "returned"
            /\ result' = <<>>
            /\ UNCHANGED <<error, wpc>>
       ELSE /\ pc' = "collecting"
            /\ wpc' = [w \in DOMAIN wpc |->
                         IF w \notin Workers THEN wpc[w]
                         ELSE IF NumVisible = 1 THEN "running" ELSE "pending"]
            /\ UNCHANGED <<error, result>>
    /\ UNCHANGED <<channel_info, cleaned_data, active_channels, info_obj>>
    /\ UNCHANGED <<inputVars, otherVars, dirVars, wpath, wret, werr, wcopy, wtemp>>

\* the pool hands a submitted call to a process
Start(w) ==
    /\ pc = "collecting"
    /\ wpc[w] = "pending"
    /\ Cardinality({v \in Workers : Running(v)}) < PoolSize
    /\ wpc' = [wpc EXCEPT ![w] = "running"]
    /\ UNCHANGED <<pc, error, channel_info, cleaned_data, active_channels,
                   info_obj, result, wpath, wret, werr, wcopy, wtemp>>
    /\ UNCHANGED <<inputVars, otherVars, dirVars>>

\* the channel record worker w was given
ChannelOf(w) == VisibleChannels(info_obj.rows)[w]

\* self.cleaned_data[["Datetime", channel_col, "Ambient Temperature"]]
SliceError(data, channel_col) ==
    IF {channel_col, AmbientTemperature} \subseteq ColumnNames(data.cols)
    THEN "" ELSE "KeyError"

\* program_handlers.py lines 122-144
Slice(w) ==
    /\ wpc[w] = "running"
    /\ IF SliceError(cleaned_data, ChannelOf(w).unique_number) # ""
       THEN /\ wpc' = [wpc EXCEPT ![w] = "failed"]
            /\ werr' = [werr EXCEPT ![w] = SliceError(cleaned_data, ChannelOf(w).unique_number)]
       ELSE /\ wpc' = [wpc EXCEPT ![w] = "sliced"]
            /\ UNCHANGED werr
    /\ UNCHANGED <<pc, error, channel_info, cleaned_data, active_channels,
                   info_obj, result, wpath, wret, wcopy, wtemp>>
    /\ UNCHANGED <<inputVars, otherVars, dirVars>>

\* metadata = dict(self.test_metadata); metadata["Unique Number"] = unique_number
ChannelMetadata(metadata, unique_number) ==
    [metadata EXCEPT !.Unique_Number = unique_number]

SharedAfterWriteAliased(shared, written) == written

\* self.test_metadata after a write to metadata, which dict() made a
\* dictionary of its own
SharedAfterWrite(shared, written) == shared

\* program_handlers.py lines 146-153
BuildPath(w) ==
    /\ wpc[w] = "sliced"
    /\ wpc' = [wpc EXCEPT ![w] = "pathed"]
    /\ wmeta' = [wmeta EXCEPT ![w] =
                    {ChannelMetadata(test_metadata, ChannelOf(w).unique_number)}]
    /\ test_metadata' =
          SharedAfterWrite(test_metadata,
                           ChannelMetadata(test_metadata, ChannelOf(w).unique_number))
    /\ wpath' = [wpath EXCEPT ![w] =
                    BuildOutputPath(ChannelMetadata(test_metadata, ChannelOf(w).unique_number))]
    /\ outDirExists' = TRUE
    /\ UNCHANGED <<pc, error, channel_info, cleaned_data, active_channels,
                   info_obj, result, wret, werr, wcopy, wtemp>>
    /\ UNCHANGED <<doc, csv, idleVars, outDir, mirrorDir, seen, mirror_seen>>

\* int(min(test_pressure * 1.05, test_pressure + 500))
MaxPressure(test_pressure) == Min((test_pressure * 105) \div 100, test_pressure + 500)

\* int(max_pressure - test_pressure) if test_pressure > 0 else 0
AllowableDrop(test_pressure) ==
    IF test_pressure > 0 THEN MaxPressure(test_pressure) - test_pressure ELSE 0

\* metadata["Max Pressure"] = max_pressure; metadata["Allowable Drop"] =
\* allowable_drop, the test pressure read from self.test_metadata
PressureMetadata(metadata, shared) ==
    [f \in DOMAIN metadata \cup {"Max_Pressure", "Allowable_Drop"} |->
        IF f = "Max_Pressure" THEN MaxPressure(shared.Test_Pressure)
        ELSE IF f = "Allowable_Drop" THEN AllowableDrop(shared.Test_Pressure)
        ELSE metadata[f]]

\* the parameters of pdf_helpers.draw_production_test_details, none with a default
DrawProductionTestDetailsParams ==
    << "test_metadata", "channel_info", "pdf_output_path", "cleaned_data",
       "transducer_code", "allowable_drop", "breakout_torque", "running_torque" >>

\* the positional arguments generate_single_report passes to it
DrawProductionTestDetailsArgs ==
    << "metadata", "channel_info", "unique_path", "cleaned_data",
       "transducer_code", "breakout_torque", "running_torque" >>

\* binding positional arguments to required parameters
CallError(params, args) == IF Len(args) = Len(params) THEN "" ELSE "TypeError"

\* program_handlers.py lines 155-204: the event table, the plot, the
\* pressures stamped on metadata and the canvas
Render(w) ==
    /\ wpc[w] = "pathed"
    /\ wmeta' = [wmeta EXCEPT ![w] =
                    {PressureMetadata(m, test_metadata) : m \in wmeta[w]}]
    /\ test_metadata' =
          SharedAfterWrite(test_metadata,
                           CHOOSE m \in wmeta'[w] : TRUE)
    /\ IF CallError(DrawProductionTestDetailsParams, DrawProductionTestDetailsArgs) # ""
       THEN /\ wpc' = [wpc EXCEPT ![w] = "failed"]
            /\ werr' = [werr EXCEPT ![w] =
                          CallError(DrawProductionTestDetailsParams, DrawProductionTestDetailsArgs)]
       ELSE /\ wpc' = [wpc EXCEPT ![w] = "rendered"]
            /\ UNCHANGED werr
    /\ UNCHANGED <<pc, error, channel_info, cleaned_data, active_channels,
                   info_obj, result, wpath, wret, wcopy, wtemp>>
    /\ UNCHANGED <<doc, csv, idleVars, dirVars>>

\* the first channel, in submission order, whose result is an exception
FirstFailed ==
    {k \in Workers : wpc[k] = "failed" /\ \A j \in 1..(k - 1) : wpc[j] = "done"}

\* the pool has handed over every call it has room for
HandedOver ==
    \/ \A w \in Workers : wpc[w] # "pending"
    \/ Cardinality({v \in Workers : Running(v)}) >= PoolSize

\* program_handlers.py lines 111 and 117: the results are taken in submission
\* order, and a result is there only after a process has run the call; the
\* first exception leaves the iterator, which cancels the futures that no
\* process has taken, and the paths collected so far are dropped
Collect ==
    /\ pc = "collecting"
    /\ HandedOver
    /\ (\A k \in Workers : wpc[k] = "done") \/ FirstFailed # {}
    /\ IF \A k \in Workers : wpc[k] = "done"
       THEN /\ pc' = "returned"
            /\ result' = [k \in Workers |-> wret[k]]
            /\ UNCHANGED <<error, wpc>>
       ELSE /\ pc' = "shutdown"
            /\ error' = werr[CHOOSE k \in FirstFailed : TRUE]
            /\ wpc' = [w \in DOMAIN wpc |->
                         IF wpc[w] = "pending" THEN "cancelled" ELSE wpc[w]]
            /\ UNCHANGED result
    /\ UNCHANGED <<channel_info, cleaned_data, active_channels, info_obj>>
    /\ UNCHANGED <<inputVars, otherVars, dirVars, wpath, wret, werr, wcopy, wtemp>>

\* program_handlers.py line 115: leaving the with block waits for the processes
Shutdown ==
    /\ pc = "shutdown"
    /\ \A w \in Workers : Finished(w)
    /\ pc' = "raised"
    /\ UNCHANGED <<error, channel_info, cleaned_data, active_channels,
                   info_obj, result>>
    /\ UNCHANGED <<inputVars, otherVars, dirVars, workerVars>>

Next ==
    \/ LoadTestInformation
    \/ PreparePrimaryData
    \/ Construct
    \/ Generate

Spec == Init /\ [][Next]_vars

\* a generator built as the class expects: info_obj is the loaded channel table
InitGen ==
    /\ doc \in {d \in Docs : LoadError(d) = ""}
    /\ csv \in {f \in Csvs : ReadError(f) = "" /\ Len(f.rows) = 1}
    /\ pc = "constructed"
    /\ error = ""
    /\ channel_info = LoadChannelInfo(doc)
    /\ cleaned_data = PrepareData(csv, channel_info)
    /\ active_channels = ActiveChannels(channel_info)
    /\ info_obj = KwargsGetInfoObj({"info_obj"}, channel_info)
    /\ test_metadata = TestMetadata
    /\ result = <<>>
    /\ outDirExists = FALSE
    /\ outDir = NoFiles
    /\ mirrorDir = NoFiles
    /\ wpc = Idle(NumCh)
    /\ wpath = NoPaths(NumCh)
    /\ wret = NoPaths(NumCh)
    /\ werr = NoText(NumCh)
    /\ wcopy = NoText(NumCh)
    /\ wtemp = NoFlags(NumCh)
    /\ seen = {}
    /\ mirror_seen = {}
    /\ OthersIdle

NextGen ==
    \/ Generate
    \/ \E w \in Workers : Start(w)
    \/ \E w \in Workers : Slice(w)
    \/ \E w \in Workers : BuildPath(w)
    \/ \E w \in Workers : Render(w)
    \/ Collect
    \/ Shutdown

SpecGen == InitGen /\ [][NextGen]_vars

(***************************************************************************)
(* pdf.save() in insert_plot_and_logo, finalize_output_path and copy_pdf.  *)
(* Each caller holds a canvas bound to its own unique_path, or calls       *)
(* finalize_output_path with a path it has rendered nothing to.            *)
(***************************************************************************)
Callers == 1..NumCallers

\* the unique_path of caller w: the name built for a channel of its own
CallerPath(w) ==
    BuildOutputPath(ChannelMetadata(TestMetadata, Digits[w]))

\* a canvas bound to the final name
CanvasFilenameFinal(unique_path) == FinalPath(unique_path)

\* canvas.Canvas(str(pdf_output_path)): the file pdf.save() writes
CanvasFilename(unique_path) == unique_path

InitFin ==
    /\ doc \in {d \in Docs : d.status = "missing"}
    /\ csv \in {f \in Csvs : f.status = "missing"}
    /\ pc = "rendering"
    /\ error = ""
    /\ channel_info = <<>>
    /\ cleaned_data = EmptyData
    /\ active_channels = <<>>
    /\ info_obj = None
    /\ test_metadata = TestMetadata
    /\ result = <<>>
    /\ outDirExists = TRUE
    /\ \E stale \in SUBSET Callers :
          outDir = [n \in {FinalPath(CallerPath(w)) : w \in stale} |->
                       Complete(EarlierRun)]
    /\ mirrorDir = NoFiles
    /\ wpc \in [Callers -> {"rendered", "finalize"}]
    /\ wpath \in [Callers -> UNION {{CallerPath(w), FinalPath(CallerPath(w))} : w \in Callers}]
    /\ \A w \in Callers :
          /\ wpath[w] \in {CallerPath(w), FinalPath(CallerPath(w))}
          /\ wpc[w] = "rendered" => wpath[w] = CallerPath(w)
    /\ wret = NoPaths(NumCallers)
    /\ werr = NoText(NumCallers)
    /\ wcopy = NoText(NumCallers)
    /\ wtemp = NoFlags(NumCallers)
    /\ seen = {}
    /\ mirror_seen = {}
    /\ OthersIdle

genVars == <<pc, error, channel_info, cleaned_data, active_channels, info_obj, result>>

\* pdf.save() opens the canvas's file for writing
SaveOpen(w) ==
    /\ wpc[w] = "rendered"
    /\ wpc' = [wpc EXCEPT ![w] = "saving"]
    /\ outDir' = Put(outDir, CanvasFilename(wpath[w]), Partial(w))
    /\ UNCHANGED <<genVars, inputVars, otherVars, outDirExists, mirrorDir, seen, mirror_seen,
                   wpath, wret, werr, wcopy, wtemp>>

\* pdf.save() has written the document and closes the file
SaveClose(w) ==
    /\ wpc[w] = "saving"
    /\ wpc' = [wpc EXCEPT ![w] = "finalize"]
    /\ outDir' = IF Exists(outDir, CanvasFilename(wpath[w]))
                 THEN Put(outDir, CanvasFilename(wpath[w]), Complete(w))
                 ELSE outDir
    /\ UNCHANGED <<genVars, inputVars, otherVars, outDirExists, mirrorDir, seen, mirror_seen,
                   wpath, wret, werr, wcopy, wtemp>>

\* program_handlers.py lines 47-54
FinalizeEnter(w) ==
    /\ wpc[w] = "finalize"
    /\ wtemp' = [wtemp EXCEPT ![w] = Exists(outDir, wpath[w])]
    /\ IF ~EndsWithTmpPdf(wpath[w])
       THEN /\ wpc' = [wpc EXCEPT ![w] = "done"]
            /\ wret' = [wret EXCEPT ![w] = wpath[w]]
       ELSE /\ wpc' = [wpc EXCEPT ![w] =
                         IF Exists(outDir, FinalPath(wpath[w]))
                         THEN "unlink" ELSE "check_temp"]
            /\ UNCHANGED wret
    /\ UNCHANGED <<genVars, inputVars, otherVars, dirVars, wpath, werr, wcopy>>

\* program_handlers.py line 55
FinalizeUnlink(w) ==
    /\ wpc[w] = "unlink"
    /\ IF Exists(outDir, FinalPath(wpath[w]))
       THEN /\ outDir' = Unlink(outDir, FinalPath(wpath[w]))
            /\ wpc' = [wpc EXCEPT ![w] = "check_temp"]
            /\ UNCHANGED werr
       ELSE /\ wpc' = [wpc EXCEPT ![w] = "failed"]
            /\ werr' = [werr EXCEPT ![w] = "FileNotFoundError"]
            /\ UNCHANGED outDir
    /\ UNCHANGED <<genVars, inputVars, otherVars, outDirExists, mirrorDir, seen, mirror_seen,
                   wpath, wret, wcopy, wtemp>>

\* program_handlers.py lines 57-58
FinalizeCheckTemp(w) ==
    /\ wpc[w] = "check_temp"
    /\ IF ~Exists(outDir, wpath[w])
       THEN /\ wpc' = [wpc EXCEPT ![w] = "done"]
            /\ wret' = [wret EXCEPT ![w] = FinalPath(wpath[w])]
       ELSE /\ wpc' = [wpc EXCEPT ![w] = "replace"]
            /\ UNCHANGED wret
    /\ UNCHANGED <<genVars, inputVars, otherVars, dirVars, wpath, werr, wcopy, wtemp>>

\* program_handlers.py line 60
FinalizeReplace(w) ==
    /\ wpc[w] = "replace"
    /\ IF Exists(outDir, wpath[w])
       THEN /\ outDir' = Replace(outDir, wpath[w], FinalPath(wpath[w]))
            /\ wpc' = [wpc EXCEPT ![w] = "copy"]
            /\ UNCHANGED werr
       ELSE /\ wpc' = [wpc EXCEPT ![w] = "failed"]
            /\ werr' = [werr EXCEPT ![w] = "FileNotFoundError"]
            /\ UNCHANGED outDir
    /\ UNCHANGED <<genVars, inputVars, otherVars, outDirExists, mirrorDir, seen, mirror_seen,
                   wpath, wret, wcopy, wtemp>>

\* an except clause that names PermissionError alone
CopyPdfExceptPermission(exception) ==
    IF exception = "PermissionError" THEN "" ELSE exception

\* copy_pdf's except clause: what still propagates of an exception raised in
\* its try block ("" when nothing does)
CopyPdfExcept(exception) == ""

\* what mkdir, resolve or the opening of the destination may raise
CopyOpenOutcomes == {"", "PermissionError", "OSError"}

\* what the writing of the destination may raise
CopyWriteOutcomes == {"", "OSError"}

\* program_handlers.py lines 61 and 66-75, up to the opened destination
CopyOpen(w) ==
    /\ wpc[w] = "copy"
    /\ IF ~Exists(outDir, FinalPath(wpath[w]))
       THEN /\ wpc' = [wpc EXCEPT ![w] = "done"]
            /\ wret' = [wret EXCEPT ![w] = FinalPath(wpath[w])]
            /\ wcopy' = [wcopy EXCEPT ![w] = "skipped"]
            /\ UNCHANGED <<mirrorDir, werr>>
       ELSE \E exception \in CopyOpenOutcomes :
            IF exception = ""
            THEN /\ wpc' = [wpc EXCEPT ![w] = "copying"]
                 /\ mirrorDir' = Put(mirrorDir, FinalPath(wpath[w]), Partial(w))
                 /\ UNCHANGED <<wret, werr, wcopy>>
            ELSE /\ wcopy' = [wcopy EXCEPT ![w] = exception]
                 /\ UNCHANGED mirrorDir
                 /\ IF CopyPdfExcept(exception) = ""
                    THEN /\ wpc' = [wpc EXCEPT ![w] = "done"]
                         /\ wret' = [wret EXCEPT ![w] = FinalPath(wpath[w])]
                         /\ UNCHANGED werr
                    ELSE /\ wpc' = [wpc EXCEPT ![w] = "failed"]
                         /\ werr' = [werr EXCEPT ![w] = CopyPdfExcept(exception)]
                         /\ UNCHANGED wret
    /\ UNCHANGED <<genVars, inputVars, otherVars, outDirExists, outDir, seen, mirror_seen, wpath, wtemp>>

\* program_handlers.py lines 75-78 and 62: the copy ends, finalize returns
CopyWrite(w) ==
    /\ wpc[w] = "copying"
    /\ \E exception \in CopyWriteOutcomes :
          IF exception = ""
          THEN /\ mirrorDir' = Put(mirrorDir, FinalPath(wpath[w]), Complete(w))
               /\ wcopy' = [wcopy EXCEPT ![w] = "copied"]
               /\ wpc' = [wpc EXCEPT ![w] = "done"]
               /\ wret' = [wret EXCEPT ![w] = FinalPath(wpath[w])]
               /\ UNCHANGED werr
          ELSE /\ wcopy' = [wcopy EXCEPT ![w] = exception]
               /\ UNCHANGED mirrorDir
               /\ IF CopyPdfExcept(exception) = ""
                  THEN /\ wpc' = [wpc EXCEPT ![w] = "done"]
                       /\ wret' = [wret EXCEPT ![w] = FinalPath(wpath[w])]
                       /\ UNCHANGED werr
                  ELSE /\ wpc' = [wpc EXCEPT ![w] = "failed"]
                       /\ werr' = [werr EXCEPT ![w] = CopyPdfExcept(exception)]
                       /\ UNCHANGED wret
    /\ UNCHANGED <<genVars, inputVars, otherVars, outDirExists, outDir, seen, mirror_seen, wpath, wtemp>>

\* a reader of the output directory opens a file that has a final name
ReaderOpen ==
    /\ \E n \in DOMAIN outDir :
          /\ ~EndsWithTmpPdf(n)
          /\ seen' = seen \cup {[name |-> n, content |-> outDir[n]]}
    /\ UNCHANGED <<genVars, inputVars, otherVars, outDirExists, outDir, mirrorDir,
                   mirror_seen, workerVars>>

\* pdf_viewer.py lines 31-43: get_pdf serves a file of the mirror directory
\* whose suffix is .pdf, with the content it has at that moment
GetPdf ==
    /\ \E n \in DOMAIN mirrorDir :
          mirror_seen' = mirror_seen \cup {[name |-> n, content |-> mirrorDir[n]]}
    /\ UNCHANGED <<genVars, inputVars, otherVars, outDirExists, outDir, mirrorDir,
                   seen, workerVars>>

NextFin ==
    \/ \E w \in Callers : SaveOpen(w)
    \/ \E w \in Callers : SaveClose(w)
    \/ \E w \in Callers : FinalizeEnter(w)
    \/ \E w \in Callers : FinalizeUnlink(w)
    \/ \E w \in Callers : FinalizeCheckTemp(w)
    \/ \E w \in Callers : FinalizeReplace(w)
    \/ \E w \in Callers : CopyOpen(w)
    \/ \E w \in Callers : CopyWrite(w)
    \/ ReaderOpen
    \/ GetPdf

SpecFin == InitFin /\ [][NextFin]_vars

(***************************************************************************)
(* locate_key_time_rows as generate_single_report calls it: on the slice   *)
(* of the TimeSeries for one channel, with the channel's record.           *)
(***************************************************************************)
\* self.cleaned_data[["Datetime", channel_col, "Ambient Temperature"]].copy()
SliceData(data, channel_col) ==
    [cols |-> SelectColumns(data.cols, <<channel_col, AmbientTemperature>>),
     rows |-> data.rows]

\* the channel tables of InitAlign: every channel visible and named "A"
NamedA == [unique_number |-> "A", visible |-> TRUE]

\* the directories and workers of a run that has rendered nothing
NothingRendered ==
    /\ outDirExists = FALSE
    /\ outDir = NoFiles
    /\ mirrorDir = NoFiles
    /\ wpc = Idle(NumCh)
    /\ wpath = NoPaths(NumCh)
    /\ wret = NoPaths(NumCh)
    /\ werr = NoText(NumCh)
    /\ wcopy = NoText(NumCh)
    /\ wtemp = NoFlags(NumCh)
    /\ seen = {}
    /\ mirror_seen = {}
    /\ wmeta = NoCopies
    /\ NoWeb

InitAlign ==
    /\ doc \in {d \in Docs : d.status = "ok" /\ d.channel_info # <<>>
                                /\ \A k \in DOMAIN d.channel_info :
                                      d.channel_info[k] = NamedA}
    /\ csv \in {f \in Csvs : ReadError(f) = ""}
    /\ pc = "sliced"
    /\ error = ""
    /\ channel_info = LoadChannelInfo(doc)
    /\ cleaned_data = SliceData(PrepareData(csv, channel_info), "A")
    /\ active_channels = ActiveChannels(channel_info)
    /\ info_obj = KwargsGetInfoObj({"info_obj"}, channel_info)
    /\ test_metadata = TestMetadata
    /\ result = <<>>
    /\ NothingRendered
    /\ hold_info \in HoldInfos
    /\ holds = NoHolds
    /\ counts_series = NoneSeries
    /\ expected_series = NoneSeries
    /\ regression_coefficients = NoCoefficients
    /\ NoCalibration
    /\ NoTrim

\* program_handlers.py lines 156-161
CallLocateKeyTimeRows ==
    /\ pc = "sliced"
    /\ holds' = LocateKeyTimeRows(cleaned_data, hold_info, "A")
    /\ error' = holds'.error
    /\ pc' = IF holds'.error = "" THEN "located" ELSE "raised"
    /\ UNCHANGED <<channel_info, cleaned_data, active_channels, info_obj, result>>
    /\ UNCHANGED <<inputVars, hold_info, regVars, calVars, trimVars, dirVars,
                   workerVars, wmeta, webVars>>

NextAlign == CallLocateKeyTimeRows

SpecAlign == InitAlign /\ [][NextAlign]_vars

(***************************************************************************)
(* calculate_calibration_regression on any two series of one length.       *)
(***************************************************************************)
\* the points a series may hold
MaxPoints == 5

\* what a cell of a series may be: a number, not-a-number, or no number at all
SeriesValues == {Whole(1), NaN, NotANumber}

SeriesOfLength(n) == {SomeSeries(values) : values \in [1..n -> SeriesValues]}

\* the state of a report run that has not begun
NoRun ==
    /\ doc \in {d \in Docs : d.status = "missing"}
    /\ csv \in {f \in Csvs : f.status = "missing"}
    /\ error = ""
    /\ channel_info = <<>>
    /\ cleaned_data = EmptyData
    /\ active_channels = <<>>
    /\ info_obj = None
    /\ test_metadata = TestMetadata
    /\ result = <<>>
    /\ NothingRendered

InitReg ==
    /\ NoRun
    /\ pc = "fit"
    /\ hold_info = [i \in DOMAIN Events |-> [kind |-> "absent", t |-> NaT]]
    /\ holds = NoHolds
    /\ \E n \in 0..MaxPoints :
          /\ counts_series \in SeriesOfLength(n) \cup {NoneSeries}
          /\ expected_series \in SeriesOfLength(n) \cup {NoneSeries}
    /\ regression_coefficients = NoCoefficients
    /\ NoCalibration
    /\ NoTrim

\* additional_info_functions.py lines 157-182
CallCalculateCalibrationRegression ==
    /\ pc = "fit"
    /\ pc' = "fitted"
    /\ regression_coefficients' =
          [isNone |-> FALSE,
           cells |-> CalculateCalibrationRegression(counts_series, expected_series)]
    /\ UNCHANGED <<error, channel_info, cleaned_data, active_channels, info_obj, result>>
    /\ UNCHANGED <<inputVars, alignVars, counts_series, expected_series,
                   calVars, trimVars, dirVars, workerVars, wmeta, webVars>>

NextReg == CallCalculateCalibrationRegression

SpecReg == InitReg /\ [][NextReg]_vars

(***************************************************************************)
(* CalibrationReportGenerator.generate                                     *)
(***************************************************************************)
\* key points in a calibration run
MaxKeyPoints == 2

\* the channels a calibration run may be for: a current input, the
\* thermocouple input, and an input without thresholds
ChannelIndexes == {1, 9, 10}

\* str(channel_index)
ChannelIndexText(channel_index) ==
    IF channel_index \in DOMAIN Digits THEN Digits[channel_index]
    ELSE IF channel_index = 9 THEN "9" ELSE "10"

\* the counts a row of the sample file may hold in the calibrated column
CountValues == {0, 3600, 3604, 3610, 4000000}

\* the configured range of an input, in counts: with two key points it
\* makes the slope one thousandth of the display unit per count
MaxRangeOf(channel_index) == IF channel_index = 9 THEN 15170 ELSE 4000000

CalibrationInfos ==
    {info \in [channel_index : ChannelIndexes,
               key_points : SeqsUpTo(KeyPointValues, MaxKeyPoints),
               max_range : {MaxRangeOf(c) : c \in ChannelIndexes}] :
        info.max_range = MaxRangeOf(info.channel_index)}

\* CalibrationReportGenerator.build_output_path, without the directory
BuildCalibrationOutputPath(metadata, info) ==
    << "Calibration_Channel-", ChannelIndexText(info.channel_index), "_",
       metadata.Date_Time, ".tmp", ".pdf" >>

InitCalWith(counts) ==
    /\ doc \in {d \in Docs : d.status = "ok" /\ d.channel_info = <<>>}
    /\ csv \in {f \in Csvs : ReadError(f) = ""}
    /\ pc = "calibration"
    /\ error = ""
    /\ channel_info = <<>>
    /\ calibration_info \in CalibrationInfos
    /\ cleaned_data = PrepareCalibrationData(csv, calibration_info.channel_index)
    /\ samples \in [DOMAIN csv.rows -> counts]
    /\ active_channels = <<CalibratedChannel>>
    /\ info_obj = None
    /\ test_metadata = TestMetadata
    /\ result = <<>>
    /\ NothingRendered
    /\ hold_info = [i \in DOMAIN Events |-> [kind |-> "absent", t |-> NaT]]
    /\ holds = NoHolds
    /\ counts_series = NoneSeries
    /\ expected_series = NoneSeries
    /\ regression_coefficients = NoCoefficients
    /\ calibration_indices = <<>>
    /\ average_values = <<>>
    /\ abs_errors = <<>>
    /\ has_breach = FALSE
    /\ NoTrim

InitCal == InitCalWith(CountValues)

\* what every step of the calibration run leaves alone
calFixed == <<inputVars, alignVars, trimVars, wmeta, webVars, channel_info, cleaned_data, active_channels,
              info_obj, result, calibration_info, samples, outDir, mirrorDir,
              seen, mirror_seen, wpc, wret, werr, wcopy, wtemp>>

\* program_handlers.py lines 229-230
BuildCalibrationPath ==
    /\ pc = "calibration"
    /\ pc' = "pathed"
    /\ wpath' = [wpath EXCEPT ![1] = BuildCalibrationOutputPath(test_metadata,
                                                               calibration_info)]
    /\ outDirExists' = TRUE
    /\ UNCHANGED <<error, regVars, calibration_indices, average_values,
                   abs_errors, has_breach>>
    /\ UNCHANGED calFixed

\* program_handlers.py line 232
CallLocateCalibrationPoints ==
    /\ pc = "pathed"
    /\ IF LocateCalibrationError(cleaned_data, calibration_info) # ""
       THEN /\ pc' = "raised"
            /\ error' = LocateCalibrationError(cleaned_data, calibration_info)
            /\ UNCHANGED calibration_indices
       ELSE /\ pc' = "points"
            /\ calibration_indices' =
                  LocateCalibrationPoints(cleaned_data, calibration_info)
            /\ UNCHANGED error
    /\ UNCHANGED <<regVars, average_values, abs_errors, has_breach, wpath,
                   outDirExists>>
    /\ UNCHANGED calFixed

\* program_handlers.py lines 233-242
CallCalculateSuccessfulCalibration ==
    /\ pc = "points"
    /\ IF CalculateError(cleaned_data, samples, calibration_indices,
                         calibration_info) # ""
       THEN /\ pc' = "raised"
            /\ error' = CalculateError(cleaned_data, samples, calibration_indices,
                                       calibration_info)
            /\ UNCHANGED <<average_values, abs_errors, counts_series,
                           expected_series>>
       ELSE /\ pc' = "calculated"
            /\ average_values' =
                  CalculateSuccessfulCalibration(cleaned_data, samples,
                                                 calibration_indices, calibration_info)
            /\ abs_errors' = [i \in DOMAIN average_values' |->
                                 average_values'[i].precise]
            /\ counts_series' =
                  SomeSeries([i \in DOMAIN average_values' |->
                                 average_values'[i].counts])
            /\ expected_series' =
                  SomeSeries(FitToPoints(
                      RegressionExpectedValues(calibration_info.channel_index),
                      Len(calibration_indices)))
            /\ UNCHANGED error
    /\ UNCHANGED <<regression_coefficients, calibration_indices, has_breach,
                   wpath, outDirExists>>
    /\ UNCHANGED calFixed

\* program_handlers.py lines 245-254
EvaluateThresholds ==
    /\ pc = "calculated"
    /\ pc' = "evaluated"
    /\ has_breach' =
          HasBreach(EvaluateCalibrationThresholds(
              average_values, AbsErrorLabel(calibration_info.channel_index)))
    /\ regression_coefficients' =
          IF has_breach'
          THEN [isNone |-> FALSE,
                cells |-> CalculateCalibrationRegression(counts_series,
                                                         expected_series)]
          ELSE NoCoefficients
    /\ UNCHANGED <<error, counts_series, expected_series, calibration_indices,
                   average_values, abs_errors, wpath, outDirExists>>
    /\ UNCHANGED calFixed

\* program_handlers.py line 256.  graph_plotter defines no
\* plot_calibration_data, so the name imported at lines 10-14 cannot be
\* bound; the run is followed as far as the call that needs it.
PlotCalibrationData ==
    /\ pc = "evaluated"
    /\ pc' = "raised"
    /\ error' = "ImportError"
    /\ UNCHANGED <<regVars, calibration_indices, average_values, abs_errors,
                   has_breach, wpath, outDirExists>>
    /\ UNCHANGED calFixed

NextCal ==
    \/ BuildCalibrationPath
    \/ CallLocateCalibrationPoints
    \/ CallCalculateSuccessfulCalibration
    \/ EvaluateThresholds
    \/ PlotCalibrationData

SpecCal == InitCal /\ [][NextCal]_vars

(***************************************************************************)
(* The retention trimmer: trim_csv on any historical sample log.           *)
(***************************************************************************)
\* lines in a historical sample log
MaxLogLines == 4

\* retention passes in a row
MaxPasses == 2

\* no report is being generated
NoReport ==
    /\ NoRun
    /\ hold_info = [i \in DOMAIN Events |-> [kind |-> "absent", t |-> NaT]]
    /\ holds = NoHolds
    /\ counts_series = NoneSeries
    /\ expected_series = NoneSeries
    /\ regression_coefficients = NoCoefficients
    /\ NoCalibration

\* what a retention pass leaves alone
trimFixed == <<pc, error, channel_info, cleaned_data, active_channels, info_obj,
               result, inputVars, alignVars, regVars, calVars, dirVars,
               workerVars, wmeta, webVars>>

InitTrimCsv ==
    /\ NoReport
    /\ pc = "trim"
    /\ historical \in SeqsUpTo(LogLines, MaxLogLines)
    /\ original_log = historical
    /\ max_rows \in 0..MaxLogLines
    /\ trim_error = ""
    /\ pdf_dir = [exists |-> FALSE, files |-> <<>>]
    /\ present = {}
    /\ deleted = {}
    /\ unlink_failed = {}
    /\ passes = 0
    /\ trim_log = <<>>

\* trim_csv.py lines 12-15, trim.csv.py lines 3-6
CallTrimCsv ==
    /\ pc = "trim"
    /\ passes < MaxPasses
    /\ passes' = passes + 1
    /\ trim_log' = Append(trim_log, "csv")
    /\ IF ReadCsvError(historical) # ""
       THEN /\ trim_error' = ReadCsvError(historical)
            /\ UNCHANGED historical
       ELSE /\ trim_error' = ""
            /\ historical' = TrimCsv(historical, max_rows)
    /\ UNCHANGED <<original_log, max_rows, pdf_dir, present, deleted, unlink_failed>>
    /\ UNCHANGED trimFixed

NextTrimCsv == CallTrimCsv

SpecTrimCsv == InitTrimCsv /\ [][NextTrimCsv]_vars

(***************************************************************************)
(* The retention trimmer: trim_pdfs on any PDF_DIR.                        *)
(***************************************************************************)
\* documents in PDF_DIR beyond MAX_PDFS
MaxExtra == 2

\* how many documents PDF_DIR may hold
DocumentCounts == {0} \cup ((MAX_PDFS - 1)..(MAX_PDFS + MaxExtra))

\* the orders in which the documents 1, 2, ... may have been modified; in
\* "paired" two documents at a time share one st_mtime
Clocks == {"ascending", "descending", "scattered", "paired"}

\* more than any number of documents, and prime
ClockModulus == 127

\* st_mtime of document p, an even number
DocumentMtime(clock, p) ==
    CASE clock = "ascending" -> 2 * p
      [] clock = "descending" -> 2 * (ClockModulus - p)
      [] clock = "scattered" -> 2 * ((5 * p) % ClockModulus)
      [] OTHER -> 2 * ((p + 1) \div 2)

\* a temporary file in PDF_DIR: none, one left by a run long ago, one of a
\* run in progress; its st_mtime is odd
TemporaryFiles == {"none", "stale", "fresh"}

TemporaryMtime(temporary) == IF temporary = "stale" THEN 1 ELSE 2 * ClockModulus + 1

\* PDF_DIR with n documents, named 1..n, then the temporary file, then others
Directory(n, clock, temporary, others) ==
    LET t == IF temporary = "none" THEN 0 ELSE 1
    IN  [exists |-> TRUE,
         files |-> [p \in 1..(n + t + others) |->
                      IF p <= n
                      THEN [kind |-> "document", mtime |-> DocumentMtime(clock, p)]
                      ELSE IF p <= n + t
                      THEN [kind |-> "temporary", mtime |-> TemporaryMtime(temporary)]
                      ELSE [kind |-> "other", mtime |-> 0]]]

PdfDirs ==
    {[exists |-> FALSE, files |-> <<>>]} \cup
    {Directory(n, clock, temporary, others) :
        n \in DocumentCounts, clock \in Clocks,
        temporary \in TemporaryFiles, others \in 0..1}

InitTrimPdfs ==
    /\ NoReport
    /\ pc = "trim"
    /\ historical = <<>>
    /\ original_log = <<>>
    /\ max_rows = 0
    /\ trim_error = ""
    /\ pdf_dir \in PdfDirs
    /\ present = DOMAIN pdf_dir.files
    /\ deleted = {}
    /\ unlink_failed = {}
    /\ passes = 0
    /\ trim_log = <<>>

\* trim_pdfs.py lines 17-52
CallTrimPdfs ==
    /\ pc = "trim"
    /\ passes < MaxPasses
    /\ passes' = passes + 1
    /\ trim_log' = Append(trim_log, "pdfs")
    /\ IF ~pdf_dir.exists \/ Cardinality(Glob(pdf_dir, present)) <= MAX_PDFS
       THEN /\ deleted' = {}
            /\ unlink_failed' = {}
            /\ UNCHANGED present
       ELSE \E to_delete \in ToDelete(pdf_dir, Glob(pdf_dir, present)) :
               \E failing \in SUBSET to_delete :
                  /\ unlink_failed' = failing
                  /\ deleted' = to_delete \ failing
                  /\ present' = present \ deleted'
    /\ UNCHANGED <<historical, original_log, max_rows, trim_error, pdf_dir>>
    /\ UNCHANGED trimFixed

NextTrimPdfs == CallTrimPdfs

SpecTrimPdfs == InitTrimPdfs /\ [][NextTrimPdfs]_vars

(***************************************************************************)
(* The retention trimmer: both operations, each on its schedule.           *)
(***************************************************************************)
InitTrim == InitTrimCsv \/ InitTrimPdfs

NextTrim == CallTrimCsv \/ CallTrimPdfs

SpecTrim == InitTrim /\ [][NextTrim]_vars

(***************************************************************************)
(* The claims.                                                             *)
(***************************************************************************)
FinalNames(dir) == {n \in DOMAIN dir : ~EndsWithTmpPdf(n)}
TmpNames(dir) == {n \in DOMAIN dir : EndsWithTmpPdf(n)}

\* the documents that may stand under final name n: the one an earlier run
\* left, or the one the caller that owns n has rendered
DocumentsOf(n) ==
    {Complete(EarlierRun)}
        \cup {Complete(w) : w \in {v \in Callers : FinalPath(CallerPath(v)) = n}}

\* C1: whenever a file stands under a final name in the output directory, and
\* whenever a reader has opened one, it is a complete document: the earlier
\* run's or the newly rendered one, never one that is still being written.
C1_FinalNameHoldsCompleteDocument ==
    /\ \A n \in FinalNames(outDir) : outDir[n] \in DocumentsOf(n)
    /\ \A o \in seen : o.content \in DocumentsOf(o.name)

\* C1 witness: a reader has opened the same final name twice, around a
\* promotion: once the earlier document, once the newly rendered one.
C1_Witness ==
    \E w \in Callers :
        /\ [name |-> FinalPath(CallerPath(w)), content |-> Complete(EarlierRun)] \in seen
        /\ [name |-> FinalPath(CallerPath(w)), content |-> Complete(w)] \in seen

\* finalize_output_path has returned to caller w, who passed a '.tmp.pdf' path
FinalizeReturned(w) == wpc[w] = "done" /\ EndsWithTmpPdf(wpath[w])

InputsReadable == doc.status = "ok" /\ csv.status = "ok"

\* generate_report has returned or raised
Terminated == pc \in {"returned", "raised"}

\* the channels of the metadata document that are visible
VisibleInDoc == {n \in DOMAIN doc.channel_info : doc.channel_info[n].visible}

\* the final name of the report of the channel at position n of the document
ReportName(n) ==
    FinalPath(BuildOutputPath(
        ChannelMetadata(test_metadata, doc.channel_info[n].unique_number)))

\* C3: once generate_report has ended on readable, matching inputs, the output
\* directory holds one finalized PDF per visible channel, named from that
\* channel's identity, and no temporary file.
C3_OnePdfPerVisibleChannel ==
    (Terminated /\ InputsReadable) =>
        /\ FinalNames(outDir) = {ReportName(n) : n \in VisibleInDoc}
        /\ TmpNames(outDir) = {}

\* the channels whose identity names no column of the TimeSeries: their own
\* rendering fails at the column selection
Unrenderable ==
    {w \in Workers : SliceError(cleaned_data, ChannelOf(w).unique_number) # ""}

\* C4: once generate() has ended in parallel mode on a run in which rendering
\* fails for exactly one channel of its own accord, every other channel's
\* document is finalized, and generate() has surfaced the failing channel's
\* error together with the final paths of the others.
C4_FailureIsolated ==
    (Terminated /\ NumVisible > 1 /\ Cardinality(Unrenderable) = 1) =>
        \A w \in Unrenderable :
            /\ wpc[w] = "failed"
            /\ error = werr[w]
            /\ \A v \in Workers \ {w} :
                  /\ wpc[v] = "done"
                  /\ Exists(outDir, wret[v])
                  /\ wret[v] \in Range(result)

\* C5: two distinct visible channels of one run never hold the same temporary
\* name, the same final name, or one the temporary name of the other's final.
C5_ChannelUniqueNames ==
    \A v \in Workers : \A w \in Workers :
        (v # w /\ wpath[v] # <<>> /\ wpath[w] # <<>>) =>
            /\ wpath[v] # wpath[w]
            /\ FinalPath(wpath[v]) # FinalPath(wpath[w])
            /\ wpath[v] # FinalPath(wpath[w])

\* C6: a production run on readable inputs whose document lists channels,
\* none of them visible, ends without an error, with an empty result and no
\* file.
C6_NoVisibleChannelIsNoError ==
    (Terminated /\ InputsReadable /\ doc.channel_info # <<>> /\ VisibleInDoc = {}) =>
        /\ pc = "returned"
        /\ error = ""
        /\ result = <<>>
        /\ outDir = NoFiles
        /\ mirrorDir = NoFiles

\* C7: with a sample file or a metadata document that is missing, empty or
\* unreadable, generate_report goes no further than the loader that reads it:
\* it never gets to build the generator, it raises with an exception, and no
\* file exists in the output or the mirror directory.
C7_UnreadableInputRaisesBeforeOutput ==
    ~InputsReadable =>
        /\ pc \in {"start", "loaded", "raised"}
        /\ pc = "raised" => error # ""
        /\ outDir = NoFiles
        /\ mirrorDir = NoFiles

\* C7 witness: the metadata document was loaded, the sample file was empty,
\* and generate_report has raised.
C7_Witness ==
    /\ doc.status = "ok"
    /\ csv.status = "empty"
    /\ pc = "raised"
    /\ error = "ValueError"
    /\ outDir = NoFiles

\* the mirror copy of caller w failed with an exception
CopyFailed(w) == wcopy[w] \in (CopyOpenOutcomes \cup CopyWriteOutcomes) \ {""}

\* C8: when the mirror copy fails, finalize_output_path still returns the
\* final path, no exception reaches the caller and the finalized document
\* stays in the output directory.
C8_CopyFailureSwallowed ==
    \A w \in Callers :
        CopyFailed(w) =>
            /\ wpc[w] = "done"
            /\ werr[w] = ""
            /\ wret[w] = FinalPath(wpath[w])
            /\ Exists(outDir, FinalPath(wpath[w]))
            /\ outDir[FinalPath(wpath[w])] = Complete(w)

\* C8 witness: a copy broke off while writing, leaving the call returned.
C8_Witness ==
    \E w \in Callers :
        /\ wcopy[w] = "OSError"
        /\ Exists(mirrorDir, FinalPath(wpath[w]))
        /\ wpc[w] = "done"
        /\ wret[w] = FinalPath(wpath[w])

\* the sample-file columns behind the TimeSeries columns named name
SourceColumns(data, name) ==
    {data.cols[k].col : k \in {j \in DOMAIN data.cols : data.cols[j].name = name}}

\* C9: after loading, the TimeSeries column named by the identity of the
\* visible channel at position N of the document holds sample-file column N.
C9_ColumnFollowsDocumentPosition ==
    (pc = "prepared") =>
        \A n \in VisibleInDoc :
            doc.channel_info[n].unique_number # "" =>
                SourceColumns(cleaned_data, doc.channel_info[n].unique_number) = {n}

\* C10: the TimeSeries prepare_primary_data returns has no row with a null
\* timestamp, and its Datetime increases strictly from row to row.
C10_StrictlyIncreasingDatetime ==
    (pc = "prepared") =>
        /\ \A i \in DOMAIN cleaned_data.rows : cleaned_data.rows[i].Datetime # NaT
        /\ \A i \in DOMAIN cleaned_data.rows : \A j \in DOMAIN cleaned_data.rows :
              i < j => cleaned_data.rows[i].Datetime < cleaned_data.rows[j].Datetime

\* the places in the sample file of the rows whose Datetime parses to t
FileRowsAt(f, t) == {r \in DOMAIN f.rows : ToDatetime(f.rows[r]) = t}

\* the timestamps the rows of the sample file parse to
FileTimestamps(f) == {ToDatetime(f.rows[r]) : r \in DOMAIN f.rows} \ {NaT}

\* C11: after loading, each distinct timestamp of the sample file is the
\* Datetime of exactly one row of the TimeSeries, and that row is the first
\* row of the file, in file order, that carries the timestamp.
C11_FirstRowPerDatetimeKept ==
    (pc = "prepared") =>
        \A t \in FileTimestamps(csv) :
            LET kept == {k \in DOMAIN cleaned_data.rows :
                            cleaned_data.rows[k].Datetime = t}
            IN  /\ Cardinality(kept) = 1
                /\ \A k \in kept :
                      /\ cleaned_data.rows[k].src \in FileRowsAt(csv, t)
                      /\ \A r \in FileRowsAt(csv, t) : cleaned_data.rows[k].src <= r

\* C11 witness: a sample file with two rows of one timestamp has been loaded
C11_Witness ==
    /\ pc = "prepared"
    /\ \E t \in FileTimestamps(csv) : Cardinality(FileRowsAt(csv, t)) > 1

\* the TimeSeries is sorted and deduplicated: strictly increasing timestamps
SortedDeduplicated(data) ==
    /\ \A k \in DOMAIN data.rows : data.rows[k].Datetime # NaT
    /\ \A j, k \in DOMAIN data.rows :
          j < k => data.rows[j].Datetime < data.rows[k].Datetime

\* the events of the channel record whose timestamp is present and parses
ValidEvents == {i \in DOMAIN Events : ~IsBlankTime(ParseTime(hold_info[i]))}

\* the distance between the event's timestamp and the Datetime of row k
EventDistance(i, k) == Abs(ParseTime(hold_info[i]).t - cleaned_data.rows[k].Datetime)

\* row p is as near to event i as any row of the TimeSeries
IsNearest(i, p) ==
    /\ p \in DOMAIN cleaned_data.rows
    /\ \A k \in DOMAIN cleaned_data.rows : EventDistance(i, p) <= EventDistance(i, k)

BlankEvents == {i \in DOMAIN Events : hold_info[i].kind # "time"}

\* C13: for each of the three events by itself, when its timestamp is absent,
\* empty or unparseable, its index is absent and its display row is blank,
\* while every other event that has a timestamp keeps its index and its filled
\* row; locate_key_time_rows raises only while aligning an event that has a
\* timestamp, never on account of a blank one.
C13_BlankEventStaysBlank ==
    /\ pc = "located" =>
          /\ \A i \in BlankEvents :
                /\ holds.index[i] = Blank
                /\ holds.display[i] = BlankRow
          /\ \A j \in DOMAIN Events \ BlankEvents :
                /\ \E p \in holds.index[j] : IsNearest(j, p)
                /\ holds.display[j].Datetime = {[strftime |-> hold_info[j].t]}
                /\ holds.display[j].value # Blank
                /\ holds.display[j].temperature # Blank
    /\ pc = "raised" => BlankEvents # DOMAIN Events

\* C13 witness: a record with an unparseable event, an absent one and one with
\* a timestamp has been aligned
C13_Witness ==
    /\ pc = "located"
    /\ \E i, j, k \in DOMAIN Events :
          /\ hold_info[i].kind = "text"
          /\ hold_info[j].kind = "absent"
          /\ hold_info[k].kind = "time"

\* the points whose counts and expected value are both present
ValidPoints ==
    IF counts_series.isNone \/ expected_series.isNone THEN {}
    ELSE {i \in DOMAIN counts_series.values :
             /\ counts_series.values[i].kind = "num"
             /\ expected_series.values[i].kind = "num"}

\* the positions of the coefficient vector that hold a coefficient
DefinedCells == {k \in DOMAIN RegressionLabels : regression_coefficients.cells[k] # {}}

\* the powers of the fitted polynomial
FittedPowers ==
    {c.power : c \in UNION {regression_coefficients.cells[k] : k \in DOMAIN RegressionLabels}}

\* C17: calculate_calibration_regression fits a polynomial of degree
\* min(3, v - 1), v being the number of points whose counts and expected value
\* are both present; with v < 2 all four coefficients are undefined.
C17_DegreeFollowsValidPoints ==
    (pc = "fitted") =>
        LET v == Cardinality(ValidPoints)
        IN  IF v < 2 THEN DefinedCells = {}
            ELSE FittedPowers = 0..Min(3, v - 1)

\* C17 witness: a fit over series of full length in which two points are valid
\* and the others are not
C17_Witness ==
    /\ pc = "fitted"
    /\ Cardinality(ValidPoints) = 2
    /\ counts_series.isNone = FALSE
    /\ Len(counts_series.values) = MaxPoints

\* C18 as stated: the coefficients stand in descending-degree order in the
\* leading positions and the undefined values fill the trailing positions.
C18_Original ==
    (pc = "fitted") =>
        LET n == Cardinality(DefinedCells)
        IN  \A k \in DOMAIN RegressionLabels :
                regression_coefficients.cells[k] =
                    IF k <= n THEN {[power |-> n - k]} ELSE {}

\* C18 amended: the coefficients stand in descending-degree order in the
\* trailing positions and the undefined values fill the leading positions, so
\* that the coefficient of power p stands at the label S<p>.
C18_LeftPaddedDescending ==
    (pc = "fitted") =>
        LET n == Cardinality(DefinedCells)
        IN  \A k \in DOMAIN RegressionLabels :
                regression_coefficients.cells[k] =
                    IF k > Len(RegressionLabels) - n
                    THEN {[power |-> Len(RegressionLabels) - k]} ELSE {}

\* C18 witness: a fit of degree 1 or 2, whose vector has undefined positions
C18_Witness ==
    /\ pc = "fitted"
    /\ Cardinality(DefinedCells) \in {2, 3}

\* the key points of the calibration run whose timestamp does not parse
UnparseableKeyPoints ==
    {i \in DOMAIN calibration_info.key_points :
        calibration_info.key_points[i].kind = "text"}

\* the calibration run has its sample column and a sorted, deduplicated,
\* non-empty TimeSeries
CalibrationDataSound ==
    /\ ColumnsNamed(cleaned_data, CalibratedChannel) # {}
    /\ cleaned_data.rows # <<>>
    /\ SortedDeduplicated(cleaned_data)

\* the calibration run's document stands under its final name
CalibrationDocumentProduced ==
    /\ wpath[1] # <<>>
    /\ Exists(outDir, FinalPath(wpath[1]))

\* C14: a calibration run on sound data in which exactly one key point's
\* timestamp is unparseable is non-fatal: it ends without an exception and
\* with its document, that key point's segment without bounds and every
\* other segment with its row of the table.
C14_UnparseableKeyPointNonFatal ==
    (/\ Terminated
     /\ CalibrationDataSound
     /\ Cardinality(UnparseableKeyPoints) = 1
     /\ Len(calibration_info.key_points) > 1) =>
        /\ pc = "returned"
        /\ error = ""
        /\ CalibrationDocumentProduced
        /\ \A i \in UnparseableKeyPoints : calibration_indices[i] = NoBounds
        /\ DOMAIN average_values = DOMAIN calibration_info.key_points

\* C15: a calibration segment is flagged as a breach exactly when the
\* absolute value of its error, applied minus converted, is strictly greater
\* than the threshold of the channel type.
C15_BreachIffErrorAboveThreshold ==
    (/\ pc = "evaluated"
     /\ AbsErrorLabel(calibration_info.channel_index) \in DOMAIN CALIBRATION_THRESHOLDS) =>
        LET label == AbsErrorLabel(calibration_info.channel_index)
            mask  == EvaluateCalibrationThresholds(average_values, label)
        IN  \A i \in DOMAIN average_values :
                mask[i] <=> Greater(abs_errors[i], CALIBRATION_THRESHOLDS[label])

\* the regression table is in the document the run produced
RegressionTableInOutput ==
    /\ CalibrationDocumentProduced
    /\ ~regression_coefficients.isNone
    /\ DefinedCells # {}

\* C16: in a calibration run that came to evaluate its thresholds, the
\* regression table is in the output if and only if a segment breaches: with
\* no breach no coefficients are computed and the table is omitted, with a
\* breach a vector of four coefficients is computed and the table is drawn.
C16_RegressionTableIffBreach ==
    (Terminated /\ average_values # <<>>) =>
        /\ RegressionTableInOutput <=> has_breach
        /\ ~has_breach => regression_coefficients.isNone
        /\ has_breach =>
              /\ ~regression_coefficients.isNone
              /\ DOMAIN regression_coefficients.cells = DOMAIN RegressionLabels

\* C19: after trim_csv, a historical sample log of n rows is the file it was
\* when n <= max_rows, and otherwise holds exactly max_rows rows, the last
\* max_rows rows of the original in their original order.
C19_TailRetention ==
    (passes >= 1) =>
        LET rows == ReadCsv(original_log)
            n    == Len(rows)
        IN  IF n <= max_rows
            THEN historical = original_log
            ELSE /\ Len(ReadCsv(historical)) = max_rows
                 /\ Len(historical) = max_rows
                 /\ \A i \in 1..max_rows :
                       ReadCsv(historical)[i] = rows[n - max_rows + i]

\* C19 witness: one pass cut a log whose first max_rows rows are not its last
C19_Witness ==
    /\ passes = 1
    /\ max_rows >= 1
    /\ Len(ReadCsv(original_log)) > max_rows
    /\ historical # original_log
    /\ DataFrameHead(ReadCsv(original_log), max_rows) # ReadCsv(historical)

\* the documents PDF_DIR held before the pass
Documents == {p \in DOMAIN pdf_dir.files : pdf_dir.files[p].kind = "document"}

\* PDF_DIR holds no PDF but its documents, each with a st_mtime of its own
DocumentsOnlyDistinctMtimes ==
    /\ Glob(pdf_dir, DOMAIN pdf_dir.files) = Documents
    /\ \A p, q \in Documents : Mtime(pdf_dir, p) = Mtime(pdf_dir, q) => p = q

\* C20: for a PDF_DIR holding n documents with distinct modification times,
\* one trim_pdfs pass without a delete failure deletes nothing when n <= 100
\* and otherwise deletes exactly the n - 100 oldest files: the 100 newest
\* remain and every remaining document is newer than every deleted one.
C20_OldestDeletedNewestRemain ==
    (/\ passes = 1
     /\ pdf_dir.exists
     /\ DocumentsOnlyDistinctMtimes
     /\ unlink_failed = {}) =>
        LET n == Cardinality(Documents)
        IN  /\ present = DOMAIN pdf_dir.files \ deleted
            /\ deleted \subseteq Documents
            /\ IF n <= MAX_PDFS
               THEN deleted = {}
               ELSE /\ Cardinality(deleted) = n - MAX_PDFS
                    /\ Cardinality(Documents \ deleted) = MAX_PDFS
                    /\ \A d \in deleted : \A k \in Documents \ deleted :
                          Mtime(pdf_dir, d) < Mtime(pdf_dir, k)

\* C20 witness: one pass without a failure deleted documents that were not
\* the first the directory listed
C20_Witness ==
    /\ passes = 1
    /\ DocumentsOnlyDistinctMtimes
    /\ unlink_failed = {}
    /\ Cardinality(Documents) > MAX_PDFS + 1
    /\ Cardinality(deleted) = Cardinality(Documents) - MAX_PDFS
    /\ 1 \notin deleted

\* the temporary files PDF_DIR held before the pass
Temporaries == {p \in DOMAIN pdf_dir.files : pdf_dir.files[p].kind = "temporary"}

\* C21: a trim pass counts and deletes only finalized documents: the
\* temporary file of a report in generation is never deleted, and never
\* counted toward the maximum, so that a directory of at most MAX_PDFS
\* documents loses nothing.
C21_TemporaryNeverCountedNorDeleted ==
    (passes >= 1 /\ pdf_dir.exists) =>
        /\ Temporaries \cap (deleted \cup unlink_failed) = {}
        /\ Cardinality(Documents) <= MAX_PDFS =>
              DOMAIN pdf_dir.files \subseteq present

\* C22: both retention operations are idempotent: a trim_csv that follows a
\* trim_csv leaves the sample log as it found it, and a trim_pdfs that
\* follows a trim_pdfs, neither with a delete failure, leaves the directory
\* as it found it.
C22_TrimTwiceIsTrimOnce ==
    [][/\ (/\ trim_log # <<>> /\ trim_log[Len(trim_log)] = "csv"
           /\ trim_log' = Append(trim_log, "csv")) =>
              historical' = historical
       /\ (/\ trim_log # <<>> /\ trim_log[Len(trim_log)] = "pdfs"
           /\ trim_log' = Append(trim_log, "pdfs")
           /\ unlink_failed = {} /\ unlink_failed' = {}) =>
              (present' = present /\ deleted' = {})]_vars

\* C22 witness: trim_csv ran twice in a row on a log the first run cut
C22_Witness ==
    /\ trim_log = <<"csv", "csv">>
    /\ trim_error = ""
    /\ historical # original_log

\* locate_calibration_points alone: the calibration runs of SpecCal up to the
\* located key points.  The counts of the calibrated column, which
\* locate_calibration_points does not read, are all the same.
InitLocate == InitCalWith({3600})

NextLocate ==
    \/ BuildCalibrationPath
    \/ CallLocateCalibrationPoints

SpecLocate == InitLocate /\ [][NextLocate]_vars

\* row p of the TimeSeries is as near to the timestamp t as any of its rows
IsNearestRow(t, p) ==
    /\ p \in DOMAIN cleaned_data.rows
    /\ \A k \in DOMAIN cleaned_data.rows :
          Abs(t - cleaned_data.rows[p].Datetime) <= Abs(t - cleaned_data.rows[k].Datetime)

\* column i of calibration_indices holds both bounds of its segment: the
\* nearest row to the key timestamp, the nearest row to it plus ten seconds
BothBoundsSet(i) ==
    \E a \in calibration_indices[i].start :
       \E z \in calibration_indices[i].stop :
          /\ IsNearestRow(calibration_info.key_points[i].t, a)
          /\ IsNearestRow(calibration_info.key_points[i].t + TenSeconds, z)
          /\ a <= z

\* C23 as stated: for each key point locate_calibration_points either sets
\* the start index to the nearest row to the key timestamp and the end index
\* to the nearest row to the key timestamp plus ten seconds, start <= end,
\* or, for an unparseable key point, leaves both unset; never one of the two.
C23_Original ==
    (pc = "points") =>
        \A i \in DOMAIN calibration_info.key_points :
            IF calibration_info.key_points[i].kind = "time"
            THEN BothBoundsSet(i)
            ELSE calibration_indices[i] = NoBounds

\* C23 amended: the same on a TimeSeries that has a row; on one without a
\* row both bounds of a parseable key point are set to -1, which is no row.
C23_BothBoundsOrNeither ==
    (pc = "points") =>
        \A i \in DOMAIN calibration_info.key_points :
            IF calibration_info.key_points[i].kind = "time"
            THEN IF cleaned_data.rows # <<>>
                 THEN BothBoundsSet(i)
                 ELSE calibration_indices[i] = [start |-> {NoPosition},
                                                stop |-> {NoPosition}]
            ELSE calibration_indices[i] = NoBounds

\* C23 witness: a run with a parseable and an unparseable key point, whose
\* segment starts and ends on different rows
C23_Witness ==
    /\ pc = "points"
    /\ UnparseableKeyPoints # {}
    /\ \E i \in DOMAIN calibration_info.key_points :
          /\ calibration_info.key_points[i].kind = "time"
          /\ BothBoundsSet(i)
          /\ calibration_indices[i].start # calibration_indices[i].stop

\* the calibration run is past calculate_succesful_calibration, which returned
CalculateCompleted ==
    \/ pc \in {"calculated", "evaluated"}
    \/ pc = "raised" /\ error = "ImportError"

\* entry i of a reference list fitted to the segments
ReferenceEntry(values, i) == IF i <= Len(values) THEN values[i] ELSE Whole(0)

\* C24: for every number K >= 0 of segments supplied on sound data,
\* calculate_succesful_calibration completes with applied values and expected
\* counts of length exactly K, the first min(K, 5) of them the reference
\* values of the channel type and every further one zero.
C24_ReferenceArraysFitSegments ==
    (/\ pc \notin {"calibration", "pathed", "points"}
     /\ CalibrationDataSound
     /\ UnparseableKeyPoints = {}) =>
        LET K == Len(calibration_info.key_points)
            channel_index == calibration_info.channel_index
        IN  /\ CalculateCompleted
            /\ Len(average_values) = K
            /\ ~expected_series.isNone
            /\ Len(expected_series.values) = K
            /\ \A i \in 1..K :
                  /\ average_values[i].applied =
                        ReferenceEntry(AppliedValues(channel_index), i)
                  /\ expected_series.values[i] =
                        ReferenceEntry(RegressionExpectedValues(channel_index), i)

\* the channels whose generate_single_report is past its last write to metadata
Stamped == {w \in DOMAIN wmeta : wmeta[w] # {} /\ wpc[w] \notin {"sliced", "pathed"}}

\* C25: generate_single_report never mutates state shared between channels:
\* whatever channels have been generated, in whatever order, the generator's
\* test_metadata, its 'Unique Number' included, and its TimeSeries are what
\* they were, and the unique number, the max pressure and the allowable drop
\* of a channel stand on that channel's copy of the metadata.
C25_SharedStateNotMutated ==
    /\ test_metadata = TestMetadata
    /\ cleaned_data = PrepareData(csv, channel_info)
    /\ \A w \in DOMAIN wmeta : \A m \in wmeta[w] :
          /\ m.Unique_Number = ChannelOf(w).unique_number
          /\ \A f \in DOMAIN TestMetadata \ {"Unique_Number"} : m[f] = TestMetadata[f]
          /\ w \in Stamped =>
                /\ m.Max_Pressure = MaxPressure(TestMetadata.Test_Pressure)
                /\ m.Allowable_Drop = AllowableDrop(TestMetadata.Test_Pressure)

\* C25 witness: two channels with different unique numbers have both stamped
\* their metadata
C25_Witness ==
    \E v, w \in Stamped :
        /\ v # w
        /\ ChannelOf(v).unique_number # ChannelOf(w).unique_number
        /\ ChannelOf(v).unique_number # ""
        /\ ChannelOf(w).unique_number # ""

C27_MirrorReaderSeesCompleteCopies ==
    \A o \in mirror_seen : ~EndsWithTmpPdf(o.name) => o.content.complete

(***************************************************************************)
(* OpcUaWrapper (visualisation/backend/opc.py): threads call read,         *)
(* read_direct and write on the one shared wrapper.  What runs inside      *)
(* "with self._lock" is one step; a thread whose attempt failed waits for  *)
(* the lock again before the reconnect check, so other threads run         *)
(* between its two steps.                                                  *)
(***************************************************************************)

\* opc.py line 207
max_retries == 3

\* the exceptions named by the except clause of line 216
ConnectionClass == {"TimeoutError", "BrokenPipeError", "ConnectionError", "OSError"}

\* the mutation: every exception is taken by the first except clause
IsConnectionClassAny(exception) == TRUE

\* opc.py line 216: does the first except clause take the exception
IsConnectionClass(exception) == exception \in ConnectionClass

\* the mutation: the reconnect is performed whatever the client is now
ClientIsCurrentAlways(now, current) == TRUE

\* opc.py line 221: self.client is current_client
ClientIsCurrent(now, current) == now = current

\* what _connect raises ("" when it connects): new_client.connect() or the
\* rebuilding of the node cache fails, lines 86-100 and 110-116
ConnectOutcomes == {"", "OSError", "UaError"}

\* what the operation of read, read_direct or write raises ("" when it
\* returns): an exception of the connection class, or one that is not, such
\* as _get_node_entry's KeyError (line 197)
OperationOutcomes == {""} \cup ConnectionClass \cup {"KeyError"}

\* opc.py lines 70-116, called with self.client None: a new Client object
\* is made; when the connection succeeds it becomes self.client, otherwise it
\* is dropped and self.client stays None.  Only the objects that were kept
\* are numbered.
Connect(outcome) ==
    IF outcome = ""
    THEN [client |-> made + 1, made |-> made + 1]
    ELSE [client |-> 0, made |-> made]

\* opc.py lines 148-164: the stale client is dropped, then _connect
Reconnect(outcome) == Connect(outcome)

\* one entry of a call's history: how the attempt ended, the client it held,
\* whether the operation was run
Outcome(exception, current, ran) ==
    [result |-> IF exception = "" THEN "ok"
                ELSE IF IsConnectionClass(exception) THEN "connection"
                ELSE "other",
     client |-> current, ran |-> ran]

\* opc.py lines 216-233, for the exception of an attempt: where the call
\* goes next
AfterFailure(call, exception) ==
    IF IsConnectionClass(exception) /\ call.attempt < max_retries - 1
    THEN [call EXCEPT !.pc = "except"]
    ELSE [call EXCEPT !.pc = "raised", !.raised = exception, !.current_client = 0]

\* opc.py lines 35-48 and 274: the shared wrapper is built; a failed first
\* connection is logged and leaves client None
OpcUaWrapperInit ==
    /\ made = 0
    /\ \E outcome \in ConnectOutcomes :
          /\ client' = IF outcome = "" THEN 1 ELSE 0
          /\ made' = 1
    /\ UNCHANGED <<calls, reconnects>>
    /\ UNCHANGED <<genVars, inputVars, dirVars, workerVars, wmeta,
                   alignVars, regVars, calVars, trimVars, cacheVars>>

\* opc.py lines 235-271 and 207-208: a thread enters read, read_direct or write
ExecuteWithRetry(t) ==
    /\ made > 0
    /\ calls[t].pc = "idle"
    /\ calls' = [calls EXCEPT ![t] = [pc |-> "try", attempt |-> 0,
                                       current_client |-> 0, outcomes |-> <<>>,
                                       raised |-> ""]]
    /\ UNCHANGED <<client, made, reconnects>>
    /\ UNCHANGED <<genVars, inputVars, dirVars, workerVars, wmeta,
                   alignVars, regVars, calVars, trimVars, cacheVars>>

\* opc.py lines 209-215, and for a failure the choice of lines 216-218 and
\* 228-233: one attempt, under the lock
Attempt(t) ==
    /\ calls[t].pc = "try"
    /\ LET call == calls[t] IN
       IF client = 0
       THEN \E connected \in ConnectOutcomes :
               /\ made' = Connect(connected).made
               /\ IF connected # ""
                  THEN /\ client' = 0
                       /\ calls' = [calls EXCEPT ![t] =
                             AfterFailure(
                                [call EXCEPT !.current_client = 0,
                                             !.outcomes = Append(@, Outcome(connected, 0, FALSE))],
                                connected)]
                  ELSE /\ client' = Connect(connected).client
                       /\ \E exception \in OperationOutcomes :
                             LET held == [call EXCEPT
                                     !.current_client = client',
                                     !.outcomes = Append(@, Outcome(exception, client', TRUE))]
                             IN calls' = [calls EXCEPT ![t] =
                                    IF exception = ""
                                    THEN [held EXCEPT !.pc = "returned", !.current_client = 0]
                                    ELSE AfterFailure(held, exception)]
       ELSE /\ UNCHANGED <<client, made>>
            /\ \E exception \in OperationOutcomes :
                  LET held == [call EXCEPT
                          !.current_client = client,
                          !.outcomes = Append(@, Outcome(exception, client, TRUE))]
                  IN calls' = [calls EXCEPT ![t] =
                         IF exception = ""
                         THEN [held EXCEPT !.pc = "returned", !.current_client = 0]
                         ELSE AfterFailure(held, exception)]
    /\ UNCHANGED reconnects
    /\ UNCHANGED <<genVars, inputVars, dirVars, workerVars, wmeta,
                   alignVars, regVars, calVars, trimVars, cacheVars>>

\* opc.py lines 219-227: under the lock again, the reconnect or its skipping;
\* then the next turn of the loop, which line 209 starts with no client held
ReconnectCheck(t) ==
    /\ calls[t].pc = "except"
    /\ LET call == calls[t] IN
       /\ IF ClientIsCurrent(client, call.current_client)
          THEN \E outcome \in ConnectOutcomes :
                  /\ client' = Reconnect(outcome).client
                  /\ made' = Reconnect(outcome).made
                  /\ reconnects' = reconnects \cup
                        {[client |-> call.current_client, thread |-> t,
                          attempt |-> call.attempt + 1]}
          ELSE UNCHANGED <<client, made, reconnects>>
       /\ calls' = [calls EXCEPT ![t] = [call EXCEPT !.pc = "try",
                                                      !.attempt = @ + 1,
                                                      !.current_client = 0]]
    /\ UNCHANGED <<genVars, inputVars, dirVars, workerVars, wmeta,
                   alignVars, regVars, calVars, trimVars, cacheVars>>

InitWeb == NoReport /\ NoTrim /\ pc = "serving"

NextOpc ==
    \/ OpcUaWrapperInit
    \/ \E t \in Threads : ExecuteWithRetry(t)
    \/ \E t \in Threads : Attempt(t)
    \/ \E t \in Threads : ReconnectCheck(t)

SpecOpc == InitWeb /\ [][NextOpc]_vars

\* the attempts of thread t's call that ran the operation
OperationRuns(t) ==
    {i \in DOMAIN calls[t].outcomes : calls[t].outcomes[i].ran}

\* C28: a call of read, write or read_direct runs the operation at most 3
\* times and returns normally only if an attempt succeeded; a connection-class
\* failure on attempt 1 or 2 is followed by a retry, on attempt 3 it is raised
\* to the caller; any other exception is raised at once, with no retry and no
\* reconnect after it.
C28_AtMostThreeAttempts ==
    \A t \in Threads :
       LET call == calls[t]
           n == Len(call.outcomes)
       IN /\ n <= 3
          /\ Cardinality(OperationRuns(t)) <= 3
          /\ call.pc = "returned" =>
                /\ n >= 1
                /\ call.outcomes[n].result = "ok"
                /\ call.outcomes[n].ran
          /\ \A i \in 1..n :
                /\ call.outcomes[i].result = "ok" => (i = n /\ call.pc = "returned")
                /\ (call.outcomes[i].result = "connection" /\ i < 3) =>
                      \/ i = n /\ call.pc = "except"
                      \/ i = n /\ call.pc = "try" /\ call.attempt = i
                      \/ i < n
                /\ (call.outcomes[i].result = "connection" /\ i = 3) =>
                      /\ call.pc = "raised"
                      /\ call.raised \in ConnectionClass
                /\ call.outcomes[i].result = "other" =>
                      /\ i = n
                      /\ call.pc = "raised"
                      /\ call.raised # ""
                      /\ call.raised \notin ConnectionClass
                      /\ \A r \in reconnects : r.thread = t => r.attempt < i

\* C28 (witness): one call has returned on its third attempt after two
\* connection-class failures, another was ended by its first exception, which
\* is not of the connection class
C28_Witness ==
    \E t, u \in Threads :
       /\ calls[t].pc = "returned"
       /\ Len(calls[t].outcomes) = 3
       /\ calls[t].outcomes[1].result = "connection"
       /\ calls[t].outcomes[2].result = "connection"
       /\ calls[u].pc = "raised"
       /\ Len(calls[u].outcomes) = 1
       /\ calls[u].outcomes[1].result = "other"

\* the non-null clients on which a connection-class failure has occurred
FailedClients ==
    {c \in 1..made :
        \E t \in Threads : \E i \in DOMAIN calls[t].outcomes :
            calls[t].outcomes[i].client = c /\ calls[t].outcomes[i].result = "connection"}

\* the threads whose operation failed with a connection-class error on client c
FailedOn(c) ==
    {t \in Threads : \E i \in DOMAIN calls[t].outcomes :
        calls[t].outcomes[i].client = c /\ calls[t].outcomes[i].result = "connection"}

\* some failure on client c came on attempt 1 or 2
FailedBeforeLast(c) ==
    \E t \in Threads : \E i \in DOMAIN calls[t].outcomes :
        /\ i < 3
        /\ calls[t].outcomes[i].client = c
        /\ calls[t].outcomes[i].result = "connection"

\* no thread that failed on client c still waits for its reconnect check
Settled(c) ==
    \A t \in Threads : ~(calls[t].pc = "except" /\ calls[t].current_client = c)

\* the reconnects performed for client c
ReconnectsOf(c) == {r \in reconnects : r.client = c}

MaxMtime == 2

\* Test Info!C9 of each workbook
OtsNumber == [f \in Workbooks |-> IF f = "a.xlsx" THEN "7001" ELSE "7002"]

\* the first row of LOG_ROWS
FirstLogRow == 10

\* the section rows a workbook holds when its mtime is m: each save of the
\* workbook has filled one more row
Sections(f, m) ==
    [i \in 1..m |-> [section_number |-> i, template |-> f, row |-> FirstLogRow + i - 1]]

\* test_details.py lines 264-274: the mtime of every workbook that exists
ScanTemplatesMtimes ==
    [f \in {g \in Workbooks : templates[g] > 0} |-> templates[f]]

\* test_details.py lines 277-279
CacheIsFresh(new_mtimes) == new_mtimes = log_cache_mtimes

\* test_details.py lines 291-366: the workbooks grouped by OTS number
Grouped(new_mtimes) ==
    [ots \in {OtsNumber[f] : f \in DOMAIN new_mtimes} |->
        LET f == CHOOSE g \in DOMAIN new_mtimes : OtsNumber[g] = ots
        IN [source_files |-> <<f>>, sections |-> Sections(f, new_mtimes[f])]]

\* the request that is replacing the cache's contents, if there is one
Refreshing == {t \in Threads : requests[t].pc \in {"built", "cleared", "updated"}}

\* the contents the cache had before the refresh in progress (its contents,
\* when there is none)
PreviousContents ==
    IF \E t \in Refreshing : requests[t].pc # "built"
    THEN requests[CHOOSE t \in Refreshing : requests[t].pc # "built"].previous
    ELSE log_cache_data

\* the contents the refresh in progress installs (the cache's contents, when
\* there is none)
NewContents ==
    IF Refreshing # {}
    THEN requests[CHOOSE t \in Refreshing : TRUE].grouped
    ELSE log_cache_data

\* a workbook is saved in the templates directory, or appears there
TemplatesChange ==
    /\ \E f \in Workbooks :
          /\ templates[f] < MaxMtime
          /\ templates' = [templates EXCEPT ![f] = @ + 1]
    /\ UNCHANGED <<log_cache_data, log_cache_mtimes, log_cache_lock, requests, observed>>
    /\ UNCHANGED <<genVars, inputVars, dirVars, workerVars, wmeta,
                   alignVars, regVars, calVars, trimVars, opcVars>>

\* test_details.py lines 382, 402, 449: a handler takes _log_cache_lock
Acquire(t) ==
    /\ requests[t].pc = "idle"
    /\ log_cache_lock = 0
    /\ log_cache_lock' = t
    /\ requests' = [requests EXCEPT ![t].pc = "locked"]
    /\ UNCHANGED <<templates, log_cache_data, log_cache_mtimes, observed>>
    /\ UNCHANGED <<genVars, inputVars, dirVars, workerVars, wmeta,
                   alignVars, regVars, calVars, trimVars, opcVars>>

\* test_details.py lines 288-366: _load_logs_into_cache up to the new contents
LoadLogs(t) ==
    /\ requests[t].pc = "locked"
    /\ LET new_mtimes == ScanTemplatesMtimes IN
       requests' = [requests EXCEPT ![t] =
          IF CacheIsFresh(new_mtimes)
          THEN [@ EXCEPT !.pc = "loaded"]
          ELSE [@ EXCEPT !.pc = "built", !.new_mtimes = new_mtimes,
                         !.grouped = Grouped(new_mtimes)]]
    /\ UNCHANGED <<templates, log_cache_data, log_cache_mtimes, log_cache_lock, observed>>
    /\ UNCHANGED <<genVars, inputVars, dirVars, workerVars, wmeta,
                   alignVars, regVars, calVars, trimVars, opcVars>>

\* test_details.py line 368: _log_cache_data.clear()
CacheClear(t) ==
    /\ requests[t].pc = "built"
    /\ log_cache_data' = <<>>
    /\ requests' = [requests EXCEPT ![t].pc = "cleared", ![t].previous = log_cache_data]
    /\ UNCHANGED <<templates, log_cache_mtimes, log_cache_lock, observed>>
    /\ UNCHANGED <<genVars, inputVars, dirVars, workerVars, wmeta,
                   alignVars, regVars, calVars, trimVars, opcVars>>

\* test_details.py line 369: _log_cache_data.update(grouped)
CacheUpdate(t) ==
    /\ requests[t].pc = "cleared"
    /\ log_cache_data' = requests[t].grouped
    /\ requests' = [requests EXCEPT ![t].pc = "updated"]
    /\ UNCHANGED <<templates, log_cache_mtimes, log_cache_lock, observed>>
    /\ UNCHANGED <<genVars, inputVars, dirVars, workerVars, wmeta,
                   alignVars, regVars, calVars, trimVars, opcVars>>

\* test_details.py lines 371-372: the mtimes the contents were built from
MtimesUpdate(t) ==
    /\ requests[t].pc = "updated"
    /\ log_cache_mtimes' = requests[t].new_mtimes
    /\ requests' = [requests EXCEPT ![t] = [NoRequest EXCEPT !.pc = "loaded"]]
    /\ UNCHANGED <<templates, log_cache_data, log_cache_lock, observed>>
    /\ UNCHANGED <<genVars, inputVars, dirVars, workerVars, wmeta,
                   alignVars, regVars, calVars, trimVars, opcVars>>

\* the end of "with _log_cache_lock" at lines 382-383, 402-403, 449-450
Release(t) ==
    /\ requests[t].pc = "loaded"
    /\ log_cache_lock' = 0
    /\ requests' = [requests EXCEPT ![t].pc = "unlocked"]
    /\ UNCHANGED <<templates, log_cache_data, log_cache_mtimes, observed>>
    /\ UNCHANGED <<genVars, inputVars, dirVars, workerVars, wmeta,
                   alignVars, regVars, calVars, trimVars, opcVars>>

\* test_details.py lines 384, 405, 452: the handler reads _log_cache_data,
\* the lock released
ReadCache(t) ==
    /\ requests[t].pc = "unlocked"
    /\ observed' = observed \cup {[contents |-> log_cache_data,
                                   previous |-> PreviousContents,
                                   new |-> NewContents]}
    /\ requests' = [requests EXCEPT ![t].pc = "answered"]
    /\ UNCHANGED <<templates, log_cache_data, log_cache_mtimes, log_cache_lock>>
    /\ UNCHANGED <<genVars, inputVars, dirVars, workerVars, wmeta,
                   alignVars, regVars, calVars, trimVars, opcVars>>

NextCache ==
    \/ TemplatesChange
    \/ \E t \in Threads : Acquire(t)
    \/ \E t \in Threads : LoadLogs(t)
    \/ \E t \in Threads : CacheClear(t)
    \/ \E t \in Threads : CacheUpdate(t)
    \/ \E t \in Threads : MtimesUpdate(t)
    \/ \E t \in Threads : Release(t)
    \/ \E t \in Threads : ReadCache(t)

SpecCache == InitWeb /\ [][NextCache]_vars

\* C30: a handler that reads the log-sheet cache never observes it cleared or
\* partly rebuilt while another request refreshes it: what it reads is the
\* complete previous contents or the complete new contents.
C30_ReadsSeeCompleteContents ==
    \A o \in observed : o.contents = o.previous \/ o.contents = o.new

====
